---- MODULE Spec2Model ----
(***************************************************************************)
(* Batch submitters of the Akamai domain-validation scripts:               *)
(*   delete_domains          (src/akamai_dom_delete.py)                    *)
(*   bulk_submit_validation  (src/akamai_dom_validate.py)                  *)
(*   create_domain_validation / get_domain_details                         *)
(*                           (src/akamai_dom_script.py)                    *)
(* A call of a submitter is a stack of Python frames; the server (or the   *)
(* transport) answers every request with any response of a bounded set.    *)
(***************************************************************************)
EXTENDS Integers, Sequences, FiniteSets, TLC

VARIABLES flow, input, stack, last, reqs, outstanding, status, returned,
          domain, cpc, cpost, cget, cresult

\* the top-level scripts: the target list, --batch-size, the loop index i,
\* all_results, the output file, where the script stands, and the batches
\* it passed to the submitter so far
VARIABLES targets, batch_size, idx, all_results, output, spc, submitted

\* the variables of the top-level scripts
script == <<targets, batch_size, idx, all_results, output, spc, submitted>>

\* the responses the top-level call in progress received, when they are
\* recorded
VARIABLES trace

\* the spreadsheet readers: the sheet and what the reader returned
VARIABLES sheet, loaded

\* fetch_all_domains: page, domains_list, where the function stands, and the
\* pages the server returned so far
VARIABLES page, domains_list, fpc, served

\* process_domains of the validate flow: --limit
VARIABLES limit

\* the variables the top-level scripts never touch
others == <<trace, sheet, loaded, page, domains_list, fpc, served, limit>>

\* the variables the submitter and create_domain_validation never touch
extra == <<script, others>>

vars == <<flow, input, stack, last, reqs, outstanding, status, returned,
          domain, cpc, cpost, cget, cresult, extra>>

(***************************************************************************)
(* Bounds of the model.                                                    *)
(***************************************************************************)
\* longest top-level batch
MaxBatch == 3
\* longest errors list of a 400 body
MaxErrors == 2
\* number of nested submitter frames the interpreter allows before a call
\* raises RecursionError
RecursionLimit == 3

(***************************************************************************)
(* Validation targets: {domainName, validationScope}.                      *)
(***************************************************************************)
Target(d, s) == [domainName |-> d, validationScope |-> s]

Targets == {Target("a.com", "DOMAIN"), Target("a.com", "M_HOST"),
            Target("b.com", "DOMAIN")}

SeqsUpTo(S, n) == UNION {[1..k -> S] : k \in 0..n}

Batches == SeqsUpTo(Targets, MaxBatch)

\* Python: [x for x in s if keep(x)] over positions
RECURSIVE SelectIdx(_, _, _)
SelectIdx(s, keep, i) ==
  IF i > Len(s) THEN <<>>
  ELSE (IF i \in keep THEN <<s[i]>> ELSE <<>>) \o SelectIdx(s, keep, i + 1)

(***************************************************************************)
(* The field string of an error entry, as a sequence of lexical pieces:    *)
(* "domains", "[", "]", one piece per digit / sign / letter, and the       *)
(* trailing ".domainName".                                                 *)
(***************************************************************************)
DigitChars == <<"0", "1", "2", "3", "4", "5", "6", "7", "8", "9">>

IsDigit(c) == \E k \in 1..10 : DigitChars[k] = c

DigitVal(c) == (CHOOSE k \in 1..10 : DigitChars[k] = c) - 1

\* str(i) of a batch position (batches of the model are shorter than 10)
StrOfIndex(i) == <<DigitChars[i + 1]>>

FieldExact(i) == <<"domains", "[">> \o StrOfIndex(i) \o <<"]", ".domainName">>
FieldPadded(i) == <<"domains", "[", "0">> \o StrOfIndex(i) \o <<"]", ".domainName">>
FieldNegative == <<"domains", "[", "-", "1", "]", ".domainName">>
FieldNonInt == <<"domains", "[", "x", "]", ".domainName">>
FieldNoShape == <<".domainName">>
FieldEmpty == <<>>
\* a field that is not a string (null, a number): no .startswith
FieldNonString == <<"<non-string>">>

\* field.startswith('domains[')
StartsWithDomains(f) == Len(f) >= 2 /\ f[1] = "domains" /\ f[2] = "["

\* ']' in field
HasCloseBracket(f) == \E k \in 1..Len(f) : f[k] = "]"

\* position of the first piece c in f at or after position from, Len(f)+1 if none
RECURSIVE FindFrom(_, _, _)
FindFrom(f, c, from) ==
  IF from > Len(f) THEN Len(f) + 1
  ELSE IF f[from] = c THEN from ELSE FindFrom(f, c, from + 1)

\* field.split('[')[1].split(']')[0], for a field holding a '['
IndexText(f) ==
  LET open == FindFrom(f, "[", 1)
      nextOpen == FindFrom(f, "[", open + 1)
      part == SubSeq(f, open + 1, nextOpen - 1)
      close == FindFrom(part, "]", 1)
  IN SubSeq(part, 1, close - 1)

RECURSIVE DigitsValue(_, _)
DigitsValue(t, acc) ==
  IF t = <<>> THEN acc ELSE DigitsValue(Tail(t), 10 * acc + DigitVal(Head(t)))

\* int(text): an optional sign, then one or more digits; anything else
\* raises ValueError
ParseInt(t) ==
  LET signed == t # <<>> /\ Head(t) \in {"-", "+"}
      digits == IF signed THEN Tail(t) ELSE t
      ok == digits # <<>> /\ \A k \in 1..Len(digits) : IsDigit(digits[k])
  IN IF ~ok THEN [ok |-> FALSE, val |-> 0]
     ELSE [ok |-> TRUE,
           val |-> IF signed /\ Head(t) = "-" THEN 0 - DigitsValue(digits, 0)
                   ELSE DigitsValue(digits, 0)]

\* f"domains[{i}]" in field
RefersTo(f, i) ==
  LET pat == <<"domains", "[">> \o StrOfIndex(i) \o <<"]">>
  IN \E k \in 1..Len(f) :
       k + Len(pat) - 1 <= Len(f) /\ SubSeq(f, k, k + Len(pat) - 1) = pat

(***************************************************************************)
(* Responses.  A request is answered by a response with a status code and  *)
(* a body, or the transport raises.  The body of a 400 is invalid JSON, a  *)
(* JSON value that is no object, or an object with a title, a detail and   *)
(* an errors member (missing, no list, or a list of entries).              *)
(***************************************************************************)
\* longest domains list of a 200/202 body of validate-now
MaxRespDomains == 2

\* the fields of the model: "domains[i].domainName" for every position of a
\* batch and for one position past the longest batch, "domains[01].domainName",
\* "domains[-1].domainName", "domains[x].domainName", ".domainName", a missing
\* field (the default '') and a field that is no string
ErrorFields ==
  {FieldExact(i) : i \in 0..MaxBatch}
    \cup {FieldPadded(1), FieldNegative, FieldNonInt, FieldNoShape, FieldEmpty,
          FieldNonString}

\* the k-th entry of an errors list: its field, and a title and a detail of its own
ErrorEntry(f, k) ==
  [field |-> f, title |-> "entry-title-" \o ToString(k),
   detail |-> "entry-detail-" \o ToString(k)]

ErrorsList(fs) == [k \in 1..Len(fs) |-> ErrorEntry(fs[k], k)]

TopTitle == "top-title"
TopDetail == "top-detail"
ResponseText == "response.text"
ParsedText == "str(response.json())"

\* an entry of the domains list of a 200/202 body: a name and a scope
\* ("<none>" is a missing key); the k-th entry of a list carries a
\* domainStatus of its own
NoValue == "<none>"
RespDomainKeys ==
  [domainName : {"a.com", "b.com", NoValue},
   validationScope : {"DOMAIN", "M_HOST", NoValue}]

RespDomain(e, k) ==
  [domainName |-> e.domainName, validationScope |-> e.validationScope,
   domainStatus |-> "STATUS_" \o ToString(k)]

RespDomainsList(es) == [k \in 1..Len(es) |-> RespDomain(es[k], k)]

Response(code, json, errors, entries, domains) ==
  [kind |-> "response", status_code |-> code, json |-> json, errors |-> errors,
   entries |-> entries, domains |-> domains]

\* the transport call raises (requests.ConnectionError, Timeout, ...)
TransportError == [kind |-> "raise", status_code |-> "", json |-> "invalid",
                   errors |-> "missing", entries |-> <<>>, domains |-> <<>>]

Bodies400 ==
  {Response("400", j, "missing", <<>>, <<>>) : j \in {"invalid", "list", "object"}}
    \cup {Response("400", "object", "notlist", <<>>, <<>>)}
    \cup {Response("400", "object", "list", ErrorsList(fs), <<>>) :
            fs \in SeqsUpTo(ErrorFields, MaxErrors)}

StatusCodes == {"200", "201", "202", "204", "207", "400", "409", "500"}

\* bodies of the other status codes; the domains list is read by validate only
BodiesOther(f) ==
  {Response(c, j, "missing", <<>>, <<>>) :
     c \in StatusCodes \ {"400"}, j \in {"invalid", "list", "object"}}
    \cup (IF f = "validate"
          THEN {Response(c, "object", "missing", <<>>, RespDomainsList(es)) :
                  c \in {"200", "202"}, es \in SeqsUpTo(RespDomainKeys, MaxRespDomains)}
          ELSE {})

Responses(f) == {TransportError} \cup Bodies400 \cup BodiesOther(f)

(***************************************************************************)
(* Outcome records: the dict appended to results; "<absent>" is a key the  *)
(* dict does not hold.                                                     *)
(***************************************************************************)
Absent == "<absent>"

Record(d, code, result, title, detail, details) ==
  [Domain |-> d.domainName, Scope |-> d.validationScope, StatusCode |-> code,
   Result |-> result, ErrorTitle |-> title, ErrorDetail |-> detail,
   Details |-> details]

ForEach(batch, Rec(_)) == [k \in 1..Len(batch) |-> Rec(batch[k])]

Identity(r) == <<r.Domain, r.Scope>>
TargetIdentity(d) == <<d.domainName, d.validationScope>>

(***************************************************************************)
(* Exceptions and the two handlers of a submitter.  Both are               *)
(* "except Exception": they catch every exception class of the model.      *)
(***************************************************************************)
ExceptionClasses ==
  {"ConnectionError", "JSONDecodeError", "AttributeError", "TypeError", "RecursionError"}

\* the handler around the 400 parsing and the retry
InnerCatches(exc) == exc \in ExceptionClasses

\* a handler that names the JSON error only (except ValueError)
OuterCatchesValueError(exc) == exc \in {"JSONDecodeError"}

\* the handler around the whole request and classification
OuterCatches(exc) == exc \in ExceptionClasses

(***************************************************************************)
(* 400 parsing.                                                            *)
(***************************************************************************)
\* the exception the parsing of a 400 body raises before any record is
\* appended, "" if it raises none
ParseException(resp) ==
  IF resp.json = "invalid" THEN "JSONDecodeError"
  ELSE IF resp.json = "list" THEN "AttributeError"
  ELSE IF resp.errors = "notlist" THEN "TypeError"
  ELSE IF \E k \in 1..Len(resp.entries) : resp.entries[k].field = FieldNonString
       THEN "AttributeError"
  ELSE ""

\* the entry's field cites an index: int(field.split('[')[1].split(']')[0])
CitesIndex(f) ==
  StartsWithDomains(f) /\ HasCloseBracket(f) /\ ParseInt(IndexText(f)).ok

BadIndices(entries) ==
  {ParseInt(IndexText(entries[k].field)).val :
     k \in {j \in 1..Len(entries) : CitesIndex(entries[j].field)}}

\* the first entry whose field holds "domains[i]", 0 if none
FirstReferring(entries, i) ==
  IF \E k \in 1..Len(entries) : RefersTo(entries[k].field, i)
  THEN CHOOSE k \in 1..Len(entries) :
         /\ RefersTo(entries[k].field, i)
         /\ \A j \in 1..(k - 1) : ~RefersTo(entries[j].field, i)
  ELSE 0

\* a cited record that falls back to the top-level detail in both flows
CitedRecordTopDetail(f, d, i, entries) ==
  LET k == FirstReferring(entries, i)
  IN Record(d, "400", "Failed",
            IF f = "delete" \/ k = 0 THEN "Invalid Request" ELSE entries[k].title,
            IF k = 0 THEN TopDetail ELSE entries[k].detail, Absent)

\* the Failed record of the target at (zero-based) position i, cited by the 400
CitedRecord(f, d, i, entries) ==
  LET k == FirstReferring(entries, i)
  IN IF f = "delete"
     THEN Record(d, "400", "Failed", "Invalid Request",
                 IF k = 0 THEN TopDetail ELSE entries[k].detail, Absent)
     ELSE Record(d, "400", "Failed",
                 IF k = 0 THEN "Invalid Request" ELSE entries[k].title,
                 IF k = 0 THEN "Invalid Request" ELSE entries[k].detail, Absent)

\* the records of the cited targets, in batch order
RECURSIVE CitedRecords(_, _, _, _, _)
CitedRecords(f, batch, bad, entries, k) ==
  IF k > Len(batch) THEN <<>>
  ELSE (IF (k - 1) \in bad THEN <<CitedRecord(f, batch[k], k - 1, entries)>> ELSE <<>>)
         \o CitedRecords(f, batch, bad, entries, k + 1)

\* a retry that resubmits the whole batch, the cited targets included
RetryWholeBatch(batch, bad) == batch

\* retry_batch: the targets whose position is not cited, in batch order
RetryBatch(batch, bad) ==
  SelectIdx(batch, {k \in 1..Len(batch) : (k - 1) \notin bad}, 1)

\* an unlocalized record that carries the literals of the cited branch
UnlocalizedRecordLiteral(f, d) ==
  Record(d, "400", "Failed", "Invalid Request", "Invalid Request", Absent)

\* no index extracted: every target of the batch fails with the top-level
\* title and detail
UnlocalizedRecord(f, d) ==
  Record(d, "400", "Failed", TopTitle, TopDetail,
         IF f = "delete" THEN Absent ELSE "Batch Error: " \o TopDetail)

\* a fallback record marked like the records of the outer handler
FallbackRecordAsException(f, d, exc) ==
  Record(d, "Exception", "Failed", Absent,
         (IF f = "delete" THEN "Batch failed and retry logic crashed: "
          ELSE "Exception during retry logic: ") \o exc,
         Absent)

\* the record the fallback appends for a target
FallbackRecord(f, d, exc) ==
  Record(d, "400", "Failed", Absent,
         (IF f = "delete" THEN "Batch failed and retry logic crashed: "
          ELSE "Exception during retry logic: ") \o exc,
         Absent)

\* the fallback skips a target: delete skips it when some record of results
\* already carries its domainName; validate skips none
FallbackSkips(f, d, results) ==
  f = "delete" /\ \E j \in 1..Len(results) : results[j].Domain = d.domainName

\* the fallback loop over the batch from position k on; results grows as it runs
RECURSIVE Fallback(_, _, _, _, _)
Fallback(f, batch, results, exc, k) ==
  IF k > Len(batch) THEN results
  ELSE Fallback(f, batch,
                IF FallbackSkips(f, batch[k], results) THEN results
                ELSE Append(results, FallbackRecord(f, batch[k], exc)),
                exc, k + 1)

\* whole-batch Exception records of the outer handler
\* an Exception record whose message depends on the state of the session
ExceptionRecordCounting(d, exc) ==
  Record(d, "Exception", "Exception", Absent, exc \o ToString(outstanding), Absent)

ExceptionRecord(d, exc) ==
  Record(d, "Exception", "Exception", Absent, exc, Absent)

(***************************************************************************)
(* Classification of the other status codes.                               *)
(***************************************************************************)
\* every 2xx code of the spec taken as success in both flows
SuccessCodesUnion(f) == {"200", "201", "202", "204"}

\* 409 taken as "already submitted" in the validate flow
SuccessCodesWith409(f) == IF f = "delete" THEN {"200", "204"} ELSE {"200", "202", "409"}

\* the status codes of whole-batch success
SuccessCodes(f) == IF f = "delete" THEN {"200", "204"} ELSE {"200", "202"}

\* 207 answered with Multi-Status records in both flows
MultiStatusCodesBoth(f) == {"207"}

\* the status codes answered with Multi-Status records
MultiStatusCodes(f) == IF f = "delete" THEN {"207"} ELSE {}

\* rd.get('domainStatus', 'Submitted')
EntryStatus(rd) == IF rd.domainStatus = NoValue THEN "Submitted" ELSE rd.domainStatus

\* a status the test "if not status" takes as no status: '' here, and
\* likewise a null
Falsy(st) == st = ""

\* status_map lookup of bulk_submit_validation: the status under the key
\* (name, scope), written by the last entry with the target's name and
\* scope; if there is none or it is falsy, the status under the name,
\* written by the first entry with its name; else "Submitted"
StatusFor(domains, d) ==
  LET exact == {k \in 1..Len(domains) :
                  /\ domains[k].domainName = d.domainName
                  /\ domains[k].validationScope = d.validationScope}
      named == {k \in 1..Len(domains) : domains[k].domainName = d.domainName}
      Max(S) == CHOOSE x \in S : \A y \in S : y <= x
      Min(S) == CHOOSE x \in S : \A y \in S : x <= y
  IN IF exact # {} /\ ~Falsy(EntryStatus(domains[Max(exact)]))
     THEN EntryStatus(domains[Max(exact)])
     ELSE IF named # {} THEN EntryStatus(domains[Min(named)])
     ELSE "Submitted"

SuccessRecord(f, d, resp) ==
  IF f = "delete"
  THEN Record(d, resp.status_code, "Success", Absent, Absent, "Deleted successfully")
  ELSE Record(d, resp.status_code, "Submitted", "", "",
              IF resp.json = "object" THEN "Status: " \o StatusFor(resp.domains, d)
              ELSE "Request accepted (Response parsing failed)")

MultiStatusRecord(d, resp) ==
  Record(d, resp.status_code, "Multi-Status", Absent, Absent,
         IF resp.json = "invalid" THEN ResponseText ELSE ParsedText)

\* an Error record that drops the response text
ErrorRecordSilent(d, resp) ==
  Record(d, resp.status_code, "Error", Absent, Absent, Absent)

ErrorRecord(d, resp) ==
  Record(d, resp.status_code, "Error", Absent, Absent, ResponseText)

(***************************************************************************)
(* Frames of a submitter call.  A frame holds the locals of one invocation *)
(* (domains_batch, status_code, results), where it stands (pc), and what   *)
(* it did so far: path names the branch taken, own the records its own     *)
(* code appended, calls the batches it invoked the submitter with, exc the *)
(* exception it caught or that is leaving it.                              *)
(***************************************************************************)
NewFrame(batch) ==
  [batch |-> batch, pc |-> "start", status_code |-> "", path |-> "",
   own |-> <<>>,
   results |-> <<>>, calls |-> <<>>, exc |-> ""]

\* fr appends the records recs and returns
Emit(fr, path, recs) ==
  [fr EXCEPT !.path = path, !.own = fr.own \o recs, !.results = fr.results \o recs,
             !.pc = "ret"]

\* exc is raised at a point the outer try covers
RaiseInOuterTry(f, fr, exc) ==
  IF OuterCatches(exc)
  THEN LET recs == ForEach(fr.batch, LAMBDA d : ExceptionRecord(d, exc))
       IN [fr EXCEPT !.own = fr.own \o recs, !.results = fr.results \o recs,
                     !.exc = exc, !.pc = "ret"]
  ELSE [fr EXCEPT !.exc = exc, !.pc = "raised"]

\* exc is raised at a point the inner try (400 parsing and retry) covers
RaiseInInnerTry(f, fr, exc) ==
  IF InnerCatches(exc)
  THEN LET after == Fallback(f, fr.batch, fr.results, exc, 1)
           recs == SubSeq(after, Len(fr.results) + 1, Len(after))
       IN [fr EXCEPT !.own = fr.own \o recs, !.results = after,
                     !.exc = exc, !.pc = "ret"]
  ELSE RaiseInOuterTry(f, fr, exc)

\* the 400 branch, up to the recursive call
Handle400(f, fr, resp) ==
  LET exc == ParseException(resp)
      bad == BadIndices(resp.entries)
      cited == CitedRecords(f, fr.batch, bad, resp.entries, 1)
      retry == RetryBatch(fr.batch, bad)
  IN IF exc # "" THEN RaiseInInnerTry(f, [fr EXCEPT !.path = "400-unparsed"], exc)
     ELSE IF bad = {}
     THEN Emit(fr, "400-unlocalized",
               ForEach(fr.batch, LAMBDA d : UnlocalizedRecord(f, d)))
     ELSE [Emit(fr, "400-localized", cited) EXCEPT
             !.calls = IF retry # <<>> THEN <<retry>> ELSE <<>>,
             !.pc = IF retry # <<>> THEN "called" ELSE "ret"]

\* the frame after the response resp to its request
Handle(f, fr, resp) ==
  IF resp.kind = "raise"
  THEN RaiseInOuterTry(f, [fr EXCEPT !.path = "transport-exception"], "ConnectionError")
  ELSE LET got == [fr EXCEPT !.status_code = resp.status_code]
       IN IF resp.status_code = "400" THEN Handle400(f, got, resp)
          ELSE IF resp.status_code \in SuccessCodes(f)
          THEN Emit(got, "success", ForEach(fr.batch, LAMBDA d : SuccessRecord(f, d, resp)))
          ELSE IF resp.status_code \in MultiStatusCodes(f)
          THEN Emit(got, "multi-status", ForEach(fr.batch, LAMBDA d : MultiStatusRecord(d, resp)))
          ELSE Emit(got, "error", ForEach(fr.batch, LAMBDA d : ErrorRecord(d, resp)))

(***************************************************************************)
(* What the invocation that just classified a response read from it: the   *)
(* shape of the body (json, errors), len(errors_list), the fields of the   *)
(* entries and bad_indices.                                                *)
(* It is kept until the next step of the call.                             *)
(***************************************************************************)
NoResponse ==
  [kind |-> "none", status_code |-> "", json |-> "", errors |-> "", nerrors |-> 0,
   nonstring |-> FALSE, fields |-> <<>>, bad_indices |-> {}]

Seen(resp) ==
  [kind |-> resp.kind, status_code |-> resp.status_code, json |-> resp.json,
   errors |-> resp.errors, nerrors |-> Len(resp.entries),
   nonstring |-> \E k \in 1..Len(resp.entries) : resp.entries[k].field = FieldNonString,
   fields |-> [k \in 1..Len(resp.entries) |-> resp.entries[k].field],
   bad_indices |-> IF resp.status_code = "400" /\ ParseException(resp) = ""
                   THEN BadIndices(resp.entries) ELSE {}]

(***************************************************************************)
(* Requests.                                                               *)
(***************************************************************************)
PayloadEntry(f, d) ==
  [domainName |-> d.domainName, validationScope |-> d.validationScope,
   validationMethod |-> IF f = "validate" THEN "DNS_TXT" ELSE Absent]

\* a request whose payload lists the current batch last target first
SubmitRequestReversed(f, batch) ==
  [method |-> IF f = "delete" THEN "DELETE" ELSE "POST",
   endpoint |-> IF f = "delete" THEN "/domain-validation/v1/domains"
                ELSE "/domain-validation/v1/domains/validate-now",
   domains |-> [k \in 1..Len(batch) |-> PayloadEntry(f, batch[Len(batch) + 1 - k])]]

\* the one request of an invocation: its payload lists the current batch
SubmitRequest(f, batch) ==
  [method |-> IF f = "delete" THEN "DELETE" ELSE "POST",
   endpoint |-> IF f = "delete" THEN "/domain-validation/v1/domains"
                ELSE "/domain-validation/v1/domains/validate-now",
   domains |-> ForEach(batch, LAMBDA d : PayloadEntry(f, d))]

(***************************************************************************)
(* State machine of one top-level call of delete_domains or                *)
(* bulk_submit_validation.                                                 *)
(***************************************************************************)
Top == stack[Len(stack)]

SetTop(fr) == [stack EXCEPT ![Len(stack)] = fr]

Submitting == flow \in {"delete", "validate"} /\ status = "running" /\ stack # <<>>

\* no response is recorded, no reader and no listing is running
NotRead == [kind |-> "none", targets |-> <<>>]

OthersIdle ==
  /\ trace = <<>>
  /\ sheet = <<>> /\ loaded = NotRead
  /\ page = 0 /\ domains_list = <<>> /\ fpc = "none" /\ served = <<>>
  /\ limit = 0

\* no top-level script is running
NotWritten == "<no file>"

ScriptIdle ==
  /\ targets = <<>> /\ batch_size = 0 /\ idx = 0 /\ all_results = <<>>
  /\ output = NotWritten /\ spc = "none" /\ submitted = <<>>

CreateIdle ==
  /\ domain = "" /\ cpc = "idle" /\ cresult = <<>>
  /\ cpost = [kind |-> "none"] /\ cget = [kind |-> "none"]

Init ==
  /\ flow \in {"delete", "validate"}
  /\ input \in Batches
  /\ stack = <<NewFrame(input)>>
  /\ last = NoResponse
  /\ reqs = <<>>
  /\ outstanding = 0
  /\ status = "running"
  /\ returned = <<>>
  /\ CreateIdle
  /\ ScriptIdle
  /\ OthersIdle

\* session.delete / session.post: the invocation sends its request and blocks
Send ==
  /\ Submitting
  /\ Top.pc = "start"
  /\ Len(stack) <= RecursionLimit
  /\ reqs' = Append(reqs, SubmitRequest(flow, Top.batch))
  /\ outstanding' = outstanding + 1
  /\ stack' = SetTop([Top EXCEPT !.pc = "wait"])
  /\ last' = NoResponse
  /\ UNCHANGED <<flow, input, status, returned, domain, cpc, cpost, cget, cresult>>
  /\ UNCHANGED extra

\* the invocation is nested deeper than the interpreter allows: the first
\* call it makes (urljoin, before any try) raises RecursionError
CallOverflow ==
  /\ Submitting
  /\ Top.pc = "start"
  /\ Len(stack) > RecursionLimit
  /\ stack' = SetTop([Top EXCEPT !.exc = "RecursionError", !.pc = "raised"])
  /\ last' = NoResponse
  /\ UNCHANGED <<flow, input, reqs, outstanding, status, returned, domain, cpc, cpost, cget, cresult>>
  /\ UNCHANGED extra

\* the response arrives (or the transport raises); the invocation classifies
\* it and runs up to its return or its recursive call
Respond ==
  /\ Submitting
  /\ Top.pc = "wait"
  /\ \E resp \in Responses(flow) :
       LET fr == Handle(flow, Top, resp)
       IN /\ stack' = IF fr.pc = "called"
                      THEN Append(SetTop(fr), NewFrame(fr.calls[Len(fr.calls)]))
                      ELSE SetTop(fr)
          /\ last' = Seen(resp)
  /\ outstanding' = outstanding - 1
  /\ UNCHANGED <<flow, input, reqs, status, returned, domain, cpc, cpost, cget, cresult>>
  /\ UNCHANGED extra

\* a return that puts the records of the retry before the caller's own
ReturnToParentPrepend ==
  /\ Submitting
  /\ Top.pc = "ret"
  /\ Len(stack) > 1
  /\ LET parent == stack[Len(stack) - 1]
     IN stack' = Append(SubSeq(stack, 1, Len(stack) - 2),
                        [parent EXCEPT !.results = Top.results \o parent.results,
                                       !.pc = "ret"])
  /\ last' = NoResponse
  /\ UNCHANGED <<flow, input, reqs, outstanding, status, returned, domain, cpc, cpost, cget, cresult>>
  /\ UNCHANGED extra

\* a recursive invocation returns: results.extend(retry_results)
ReturnToParent ==
  /\ Submitting
  /\ Top.pc = "ret"
  /\ Len(stack) > 1
  /\ LET parent == stack[Len(stack) - 1]
     IN stack' = Append(SubSeq(stack, 1, Len(stack) - 2),
                        [parent EXCEPT !.results = parent.results \o Top.results,
                                       !.pc = "ret"])
  /\ last' = NoResponse
  /\ UNCHANGED <<flow, input, reqs, outstanding, status, returned, domain, cpc, cpost, cget, cresult>>
  /\ UNCHANGED extra

\* the top-level invocation returns its results
ReturnToCaller ==
  /\ Submitting
  /\ Top.pc = "ret"
  /\ Len(stack) = 1
  /\ returned' = Top.results
  /\ status' = "returned"
  /\ last' = NoResponse
  /\ UNCHANGED <<flow, input, stack, reqs, outstanding, domain, cpc, cpost, cget, cresult>>
  /\ UNCHANGED extra

\* an exception leaves a recursive invocation: it is raised at the call, inside
\* the caller's inner try
Unwind ==
  /\ Submitting
  /\ Top.pc = "raised"
  /\ Len(stack) > 1
  /\ stack' = Append(SubSeq(stack, 1, Len(stack) - 2),
                     RaiseInInnerTry(flow, stack[Len(stack) - 1], Top.exc))
  /\ last' = NoResponse
  /\ UNCHANGED <<flow, input, reqs, outstanding, status, returned, domain, cpc, cpost, cget, cresult>>
  /\ UNCHANGED extra

Next == Send \/ CallOverflow \/ Respond \/ ReturnToParent \/ ReturnToCaller \/ Unwind

Spec == Init /\ [][Next]_vars

(***************************************************************************)
(* create_domain_validation and get_domain_details (akamai_dom_script.py). *)
(* An item of a response is an object with a domainName, a status, a       *)
(* detail and the txtRecord value of its validationChallenge ("<absent>"   *)
(* without a challenge, "" for a challenge without a value).               *)
(***************************************************************************)
\* longest successes / errors / top-level list of a create response
MaxItems == 1

DomainNames == {"a.com", "b.com"}

Item(name, st, txt, detail) ==
  [domainName |-> name, status |-> st, txtValue |-> txt, detail |-> detail]

\* the token a response to the request req ("POST" or "GET") carries for d
TokenValue(req, d) == req \o "-token-of-" \o d

\* txt_record.get('name')
TokenName(d) == "_acme-challenge." \o d

\* the items of a response to req for the domain d: one of another domain,
\* and for d itself one per branch of check_item and per pair of branches
\* that compete
ItemsFor(req, d) ==
  {Item("other.com", "PENDING", TokenValue(req, "other.com"), "ok"),
   Item(d, "VALIDATED", TokenValue(req, d), "ok"),
   Item(d, "PENDING", TokenValue(req, d), "Domain already exists"),
   Item(d, "Internal Server Error", "", "boom"),
   Item(d, "Internal Server Error", Absent, "Domain already exists"),
   Item(d, "PENDING", Absent, "Domain already exists"),
   Item(d, "PENDING", "", "ok")}

NoItem == Item(NoValue, NoValue, Absent, "")

\* challenge and txt_record.get('value') are truthy
HasToken(item) == item.txtValue \notin {Absent, ""}

NotFound == <<NoValue, NoValue>>

\* check_item(item) for the target domain d: (name, token), NotFound for
\* (None, None)
check_item(item, d) ==
  IF item.domainName # d THEN NotFound
  ELSE IF item.status = "VALIDATED" THEN <<"Already Validated", "Already Validated">>
  ELSE IF HasToken(item) THEN <<TokenName(item.domainName), item.txtValue>>
  ELSE IF item.status = "Internal Server Error"
  THEN <<"Error: " \o item.detail, "Error: " \o item.detail>>
  ELSE IF item.detail = "Domain already exists"
  THEN <<"Domain already exists", "Domain already exists">>
  ELSE NotFound

\* the first item of the list with a token
RECURSIVE FirstFound(_, _)
FirstFound(items, d) ==
  IF items = <<>> THEN NotFound
  ELSE IF check_item(Head(items), d) # NotFound THEN check_item(Head(items), d)
  ELSE FirstFound(Tail(items), d)

\* find_token_in_data(data, d): the successes, then the errors, then the
\* list, then the object itself
find_token_in_data(data, d) ==
  IF data.json = "list" THEN FirstFound(data.items, d)
  ELSE IF FirstFound(data.successes, d) # NotFound THEN FirstFound(data.successes, d)
  ELSE IF FirstFound(data.errors, d) # NotFound THEN FirstFound(data.errors, d)
  ELSE check_item(data.self, d)

\* "Domain already exists" in str(name), for the names check_item returns
MentionsExists(name) ==
  name \in {"Domain already exists", "Error: Domain already exists"}

CreateResponse(kind, code, json, successes, errors, items, self) ==
  [kind |-> kind, status_code |-> code, json |-> json, successes |-> successes,
   errors |-> errors, items |-> items, self |-> self]

CreateStatusCodes == {"200", "201", "207", "400", "409", "500"}

\* the bodies a response to the create POST may carry: every shape for the
\* status codes whose body is parsed (200, 201, 207); for the others, whose
\* body is never read, a body that is no JSON and an object with or without
\* a token of its own
CreateBodies(code, d) ==
  IF code \in {"200", "201", "207"}
  THEN {CreateResponse("response", code, "invalid", <<>>, <<>>, <<>>, NoItem)}
         \cup {CreateResponse("response", code, "list", <<>>, <<>>, is, NoItem) :
                 is \in SeqsUpTo(ItemsFor("POST", d), MaxItems)}
         \cup {CreateResponse("response", code, "object", ss, es, <<>>, self) :
                 ss \in SeqsUpTo(ItemsFor("POST", d), MaxItems),
                 es \in SeqsUpTo(ItemsFor("POST", d), MaxItems),
                 self \in ItemsFor("POST", d) \cup {NoItem}}
  ELSE {CreateResponse("response", code, "invalid", <<>>, <<>>, <<>>, NoItem)}
         \cup {CreateResponse("response", code, "object", <<>>, <<>>, <<>>, self) :
                 self \in ItemsFor("POST", d) \cup {NoItem}}

CreateRaise == CreateResponse("raise", "", "invalid", <<>>, <<>>, <<>>, NoItem)

CreateResponses(d) ==
  {CreateRaise} \cup UNION {CreateBodies(c, d) : c \in CreateStatusCodes}

\* the GET reads the object itself only
GetResponses(d) ==
  {CreateRaise}
    \cup {CreateResponse("response", c, "object", <<>>, <<>>, <<>>, NoItem) :
            c \in CreateStatusCodes \ {"200"}}
    \cup {CreateResponse("response", "200", j, <<>>, <<>>, <<>>, NoItem) :
            j \in {"invalid", "list"}}
    \cup {CreateResponse("response", "200", "object", <<>>, <<>>, <<>>, self) :
            self \in ItemsFor("GET", d) \cup {NoItem}}

NoCreateResponse == CreateResponse("none", "", "invalid", <<>>, <<>>, <<>>, NoItem)

\* what get_domain_details returns for the response resp to its GET
get_domain_details(resp) ==
  IF resp.kind = "raise"
  THEN <<"Exception GET: ConnectionError", "Exception GET: ConnectionError">>
  ELSE IF resp.status_code # "200"
  THEN <<"Error GET: " \o resp.status_code, "Error GET: " \o resp.status_code>>
  ELSE IF resp.json = "invalid"
  THEN <<"Exception GET: JSONDecodeError", "Exception GET: JSONDecodeError">>
  ELSE IF resp.json = "list"
  THEN <<"Exception GET: AttributeError", "Exception GET: AttributeError">>
  ELSE IF resp.self.status = "VALIDATED"
  THEN <<"Already Validated", "Already Validated">>
  ELSE IF HasToken(resp.self) THEN <<TokenName(resp.self.domainName), resp.self.txtValue>>
  ELSE <<"Token not found", "Token not found">>

\* a create that reports a 409 like any other error status
AfterPostNoFallback(resp, d) ==
  IF resp.kind = "raise"
  THEN <<"Exception: ConnectionError", "Exception: ConnectionError">>
  ELSE IF resp.status_code \in {"200", "201", "207"}
  THEN IF resp.json = "invalid"
       THEN <<"Exception: JSONDecodeError", "Exception: JSONDecodeError">>
       ELSE LET found == find_token_in_data(resp, d)
            IN IF found = NotFound THEN <<"Token not found", "Token not found">>
               ELSE IF MentionsExists(found[1]) THEN <<"GET">>
               ELSE found
  ELSE <<"Error: " \o resp.status_code, "Error: " \o resp.status_code>>

\* a create that looks the domain up after every status that is no success
AfterPostAlwaysGet(resp, d) ==
  IF resp.kind = "raise"
  THEN <<"Exception: ConnectionError", "Exception: ConnectionError">>
  ELSE IF resp.status_code \in {"200", "201", "207"}
  THEN IF resp.json = "invalid"
       THEN <<"Exception: JSONDecodeError", "Exception: JSONDecodeError">>
       ELSE LET found == find_token_in_data(resp, d)
            IN IF found = NotFound THEN <<"Token not found", "Token not found">>
               ELSE IF MentionsExists(found[1]) THEN <<"GET">>
               ELSE found
  ELSE <<"GET">>

\* what create_domain_validation does with the response to its POST: it
\* returns a (name, token) pair, or goes on to get_domain_details ("GET")
AfterPost(resp, d) ==
  IF resp.kind = "raise"
  THEN <<"Exception: ConnectionError", "Exception: ConnectionError">>
  ELSE IF resp.status_code \in {"200", "201", "207"}
  THEN IF resp.json = "invalid"
       THEN <<"Exception: JSONDecodeError", "Exception: JSONDecodeError">>
       ELSE LET found == find_token_in_data(resp, d)
            IN IF found = NotFound THEN <<"Token not found", "Token not found">>
               ELSE IF MentionsExists(found[1]) THEN <<"GET">>
               ELSE found
  ELSE IF resp.status_code = "409" THEN <<"GET">>
  ELSE <<"Error: " \o resp.status_code, "Error: " \o resp.status_code>>

CreateRequest(d) ==
  [method |-> "POST", endpoint |-> "/domain-validation/v1/domains",
   domains |-> <<[domainName |-> d, validationScope |-> "DOMAIN",
                  validationMethod |-> Absent]>>]

DetailRequest(d) ==
  [method |-> "GET", endpoint |-> "/domain-validation/v1/domains/" \o d,
   domains |-> <<>>]

SubmitIdle ==
  /\ input = <<>> /\ stack = <<>> /\ last = NoResponse /\ status = "idle"
  /\ returned = <<>>

InitCreate ==
  /\ flow = "create"
  /\ domain \in DomainNames
  /\ cpc = "start"
  /\ cpost = NoCreateResponse
  /\ cget = NoCreateResponse
  /\ cresult = <<>>
  /\ reqs = <<>>
  /\ outstanding = 0
  /\ SubmitIdle
  /\ ScriptIdle
  /\ OthersIdle

\* session.post(url, json=payload): the create request is sent
CreatePost ==
  /\ flow = "create"
  /\ cpc = "start"
  /\ reqs' = Append(reqs, CreateRequest(domain))
  /\ outstanding' = outstanding + 1
  /\ cpc' = "post"
  /\ UNCHANGED <<flow, input, stack, last, status, returned, domain, cpost, cget, cresult>>
  /\ UNCHANGED extra

\* the response to the POST: a result, or the GET of get_domain_details is sent
CreatePostResponse ==
  /\ flow = "create"
  /\ cpc = "post"
  /\ \E resp \in CreateResponses(domain) :
       LET r == AfterPost(resp, domain)
       IN /\ cpost' = resp
          /\ IF r = <<"GET">>
             THEN /\ reqs' = Append(reqs, DetailRequest(domain))
                  /\ cpc' = "get"
                  /\ UNCHANGED <<outstanding, cresult>>
             ELSE /\ cresult' = r
                  /\ cpc' = "done"
                  /\ outstanding' = outstanding - 1
                  /\ UNCHANGED reqs
  /\ UNCHANGED <<flow, input, stack, last, status, returned, domain, cget>>
  /\ UNCHANGED extra

\* the response to the GET: create_domain_validation returns what
\* get_domain_details returns
CreateGetResponse ==
  /\ flow = "create"
  /\ cpc = "get"
  /\ \E resp \in GetResponses(domain) :
       /\ cget' = resp
       /\ cresult' = get_domain_details(resp)
  /\ cpc' = "done"
  /\ outstanding' = outstanding - 1
  /\ UNCHANGED <<flow, input, stack, last, reqs, status, returned, domain, cpost>>
  /\ UNCHANGED extra

NextCreate == CreatePost \/ CreatePostResponse \/ CreateGetResponse

SpecCreate == InitCreate /\ [][NextCreate]_vars

(***************************************************************************)
(* One top-level call of a submitter against a recorded response sequence: *)
(* the responses are drawn from the bodies with at most one error entry    *)
(* and at most one entry in the domains list, and each is appended to      *)
(* trace.  RunCall is the list the function returns for a batch and a      *)
(* response sequence, computed by the function's own recursion.            *)
(***************************************************************************)
TracedResponses(f) ==
  {r \in Responses(f) : Len(r.entries) <= 1 /\ Len(r.domains) <= 1}

Outcome(kind, recs) == [kind |-> kind, results |-> recs]

\* delete_domains / bulk_submit_validation (batch) at call depth depth, the
\* session answering with resps: "returned" with the list, "raised" when
\* the call raises, "blocked" when the responses run out
RECURSIVE RunCall(_, _, _, _)
RunCall(f, batch, resps, depth) ==
  IF depth > RecursionLimit THEN Outcome("raised", <<>>)
  ELSE IF resps = <<>> THEN Outcome("blocked", <<>>)
  ELSE LET fr == Handle(f, NewFrame(batch), Head(resps))
       IN IF fr.pc = "raised" THEN Outcome("raised", <<>>)
          ELSE IF fr.pc # "called" THEN Outcome("returned", fr.results)
          ELSE LET sub == RunCall(f, fr.calls[1], Tail(resps), depth + 1)
                   caught == RaiseInInnerTry(f, fr, "RecursionError")
               IN IF sub.kind = "blocked" THEN sub
                  ELSE IF sub.kind = "returned"
                  THEN Outcome("returned", fr.results \o sub.results)
                  ELSE IF caught.pc = "raised" THEN Outcome("raised", <<>>)
                  ELSE Outcome("returned", caught.results)

InitTraced ==
  /\ flow \in {"delete", "validate"}
  /\ input \in Batches
  /\ stack = <<NewFrame(input)>>
  /\ last = NoResponse
  /\ reqs = <<>>
  /\ outstanding = 0
  /\ status = "running"
  /\ returned = <<>>
  /\ CreateIdle
  /\ ScriptIdle
  /\ OthersIdle

\* the response arrives and is recorded; the invocation classifies it
RespondTraced ==
  /\ Submitting
  /\ Top.pc = "wait"
  /\ \E resp \in TracedResponses(flow) :
       LET fr == Handle(flow, Top, resp)
       IN /\ stack' = IF fr.pc = "called"
                      THEN Append(SetTop(fr), NewFrame(fr.calls[Len(fr.calls)]))
                      ELSE SetTop(fr)
          /\ last' = Seen(resp)
          /\ trace' = Append(trace, resp)
  /\ outstanding' = outstanding - 1
  /\ UNCHANGED <<flow, input, reqs, status, returned, domain, cpc, cpost, cget, cresult>>
  /\ UNCHANGED <<script, sheet, loaded, page, domains_list, fpc, served, limit>>

NextTraced ==
  Send \/ CallOverflow \/ RespondTraced \/ ReturnToParent \/ ReturnToCaller \/ Unwind

SpecTraced == InitTraced /\ [][NextTraced]_vars

(***************************************************************************)
(* One call of bulk_submit_validation answered with a 200 or 202 whose     *)
(* body lists per-domain statuses: an entry carries a status of its own,   *)
(* an empty status, or no domainStatus key.                                *)
(***************************************************************************)
StatusKeys ==
  { [domainName |-> "a.com", validationScope |-> "DOMAIN"],
    [domainName |-> "a.com", validationScope |-> "M_HOST"],
    [domainName |-> "a.com", validationScope |-> NoValue],
    [domainName |-> "b.com", validationScope |-> "DOMAIN"],
    [domainName |-> NoValue, validationScope |-> "DOMAIN"] }

\* the choices for an entry: its key, and whether its status is its own,
\* empty or missing
StatusChoices ==
  {[key |-> e, st |-> c] : e \in StatusKeys, c \in {"own", "empty"}}
    \cup {[key |-> [domainName |-> "a.com", validationScope |-> "DOMAIN"], st |-> "missing"]}

StatusEntry(c, k) ==
  [domainName |-> c.key.domainName, validationScope |-> c.key.validationScope,
   domainStatus |-> IF c.st = "own" THEN "STATUS_" \o ToString(k)
                    ELSE IF c.st = "empty" THEN "" ELSE NoValue]

StatusResponses ==
  {Response(c, "object", "missing", <<>>, [k \in 1..Len(cs) |-> StatusEntry(cs[k], k)]) :
     c \in {"200", "202"}, cs \in SeqsUpTo(StatusChoices, MaxRespDomains)}

InitStatus ==
  /\ flow = "validate"
  /\ input \in Batches
  /\ stack = <<NewFrame(input)>>
  /\ last = NoResponse
  /\ reqs = <<>>
  /\ outstanding = 0
  /\ status = "running"
  /\ returned = <<>>
  /\ CreateIdle
  /\ ScriptIdle
  /\ OthersIdle

\* the 200/202 response arrives and is recorded; the invocation appends one
\* record per target
RespondStatus ==
  /\ Submitting
  /\ Top.pc = "wait"
  /\ \E resp \in StatusResponses :
       /\ stack' = SetTop(Handle(flow, Top, resp))
       /\ last' = Seen(resp)
       /\ trace' = Append(trace, resp)
  /\ outstanding' = outstanding - 1
  /\ UNCHANGED <<flow, input, reqs, status, returned, domain, cpc, cpost, cget, cresult>>
  /\ UNCHANGED <<script, sheet, loaded, page, domains_list, fpc, served, limit>>

NextStatus == Send \/ RespondStatus \/ ReturnToCaller

SpecStatus == InitStatus /\ [][NextStatus]_vars

(***************************************************************************)
(* The spreadsheet readers: read_domains of the validate flow and          *)
(* read_delete_targets of the delete flow.  A sheet is the data frame      *)
(* pandas read: its header names as written in the file and its rows of    *)
(* cells, a cell being a string or NaN (an empty cell).  The string        *)
(* methods are tabulated on the strings of the model.                      *)
(***************************************************************************)
MaxRows == 2

NaN == "<NaN>"

\* str.strip()
Strip(s) ==
  CASE s = "  " -> ""
    [] s = " A.com " -> "A.com"
    [] s = " HostName " -> "HostName"
    [] s = " Validation Scope " -> "Validation Scope"
    [] OTHER -> s

\* str.lower()
Lower(s) ==
  CASE s = "A.com" -> "a.com"
    [] s = "DOMAIN" -> "domain"
    [] s = "Domain" -> "domain"
    [] s = "HostName" -> "hostname"
    [] s = "Scope" -> "scope"
    [] s = "Validation Scope" -> "validation scope"
    [] s = "validationScope" -> "validationscope"
    [] s = "Name" -> "name"
    [] s = "Notes" -> "notes"
    [] OTHER -> s

\* str.upper()
Upper(s) ==
  CASE s = "A.com" -> "A.COM"
    [] s = "b.com" -> "B.COM"
    [] s = "m_host" -> "M_HOST"
    [] OTHER -> s

Headers ==
  { <<>>, <<"Domain">>, <<"Name">>, <<" HostName ">>, <<"validationScope">>,
    <<"Domain", "Scope">>, <<"Scope", "Domain">>,
    <<"Name", " Validation Scope ">>, <<"Name", "Notes">> }

Cells == {NaN, "  ", " A.com ", "b.com", "m_host", "DOMAIN"}

Sheets ==
  {[columns |-> h, rows |-> r] :
     h \in Headers, r \in UNION {[1..n -> UNION {[1..k -> Cells] : k \in 0..2}] : n \in 0..MaxRows}}

\* the frames pandas can build: every row has one cell per column
WellFormed(sh) ==
  /\ \A i \in 1..Len(sh.rows) : Len(sh.rows[i]) = Len(sh.columns)
  /\ sh.columns = <<>> => sh.rows = <<>>

\* df.columns = df.columns.astype(str).str.strip()
Normalized(cols) == [k \in 1..Len(cols) |-> Strip(cols[k])]

DomainNamesOfColumn == {"domain", "hostname", "domainname", "domain name"}
ScopeNamesOfColumn == {"validationscope", "scope", "validation scope"}

\* for col in df.columns: if col.lower() in names: ...; break  (0: none)
FirstColumn(cols, names) ==
  LET hits == {k \in 1..Len(cols) : Lower(cols[k]) \in names}
  IN IF hits = {} THEN 0 ELSE CHOOSE k \in hits : \A j \in hits : k <= j

\* pd.isna(d) or str(d).strip() == ''
BlankDomain(d) == d = NaN \/ Strip(d) = ""

Loaded(ts) == [kind |-> "returned", targets |-> ts]
SysExit == [kind |-> "exit", targets |-> <<>>]

\* the loop over df.iterrows(); scol = 0 stands for the literal "DOMAIN"
RECURSIVE ReadRows(_, _, _, _)
ReadRows(rows, dcol, scol, i) ==
  IF i > Len(rows) THEN <<>>
  ELSE LET d == rows[i][dcol]
           sc == IF scol = 0 THEN "DOMAIN" ELSE rows[i][scol]
           s_str == IF sc = NaN THEN "DOMAIN" ELSE Upper(Strip(sc))
       IN (IF BlankDomain(d) THEN <<>>
           ELSE <<Target(Lower(Strip(d)), s_str)>>)
          \o ReadRows(rows, dcol, scol, i + 1)

\* validate: a missing scope column is a warning
read_domains(sh) ==
  LET cols == Normalized(sh.columns)
      found == FirstColumn(cols, DomainNamesOfColumn)
      scol == FirstColumn(cols, ScopeNamesOfColumn)
  IN IF cols = <<>> THEN SysExit
     ELSE Loaded(ReadRows(sh.rows, IF found = 0 THEN 1 ELSE found, scol, 1))

\* a delete reader that takes a missing scope column as a warning
read_delete_targets_lenient(sh) == read_domains(sh)

\* delete: a missing scope column ends the run
read_delete_targets(sh) ==
  LET cols == Normalized(sh.columns)
      found == FirstColumn(cols, DomainNamesOfColumn)
      scol == FirstColumn(cols, ScopeNamesOfColumn)
  IN IF cols = <<>> THEN SysExit
     ELSE IF scol = 0 THEN SysExit
     ELSE Loaded(ReadRows(sh.rows, IF found = 0 THEN 1 ELSE found, scol, 1))

InitRead ==
  /\ flow \in {"delete", "validate"}
  /\ sheet \in {sh \in Sheets : WellFormed(sh)}
  /\ loaded = NotRead
  /\ trace = <<>>
  /\ page = 0 /\ domains_list = <<>> /\ fpc = "none" /\ served = <<>>
  /\ limit = 0
  /\ reqs = <<>>
  /\ outstanding = 0
  /\ SubmitIdle
  /\ CreateIdle
  /\ ScriptIdle

\* targets = read_delete_targets(args.file) / read_domains(input_file)
ReadSheet ==
  /\ loaded = NotRead
  /\ flow \in {"delete", "validate"}
  /\ loaded' = IF flow = "delete" THEN read_delete_targets(sheet)
               ELSE read_domains(sheet)
  /\ UNCHANGED <<flow, input, stack, last, reqs, outstanding, status, returned,
                 domain, cpc, cpost, cget, cresult>>
  /\ UNCHANGED <<script, trace, sheet, page, domains_list, fpc, served, limit>>

NextRead == ReadSheet

SpecRead == InitRead /\ [][NextRead]_vars

(***************************************************************************)
(* fetch_all_domains of the validate flow: the paged listing.  PageSize    *)
(* stands for page_size = 500, and the server answers with a page that     *)
(* ends the listing by page MaxPages at the latest.  A listing entry is    *)
(* the object the server lists, a key it leaves out being Absent.          *)
(***************************************************************************)
PageSize == 2
MaxPages == 3

ListingEntry(d, s, st) == [domainName |-> d, validationScope |-> s, domainStatus |-> st]

ListingEntries ==
  { ListingEntry("a.com", Absent, "REQUEST_ACCEPTED"),
    ListingEntry("b.com", "M_HOST", "VALIDATION_IN_PROGRESS"),
    ListingEntry("c.com", "DOMAIN", "VALIDATED"),
    ListingEntry("d.com", "DOMAIN", Absent) }

\* the allow-list with a status of a finished validation added
AllowListWithValidated == {"REQUEST_ACCEPTED", "VALIDATION_IN_PROGRESS", "VALIDATED"}

AllowList == {"REQUEST_ACCEPTED", "VALIDATION_IN_PROGRESS"}

\* what session.get returns or raises: a page answered with 200 and a JSON
\* body, an answer with another code, or an exception (of the transport, or
\* of response.json() on a body that is not JSON)
Page(code, entries) == [kind |-> "response", code |-> code, domains |-> entries]
Raised == [kind |-> "raise", code |-> 0, domains |-> <<>>]

Pages(p) ==
  {Page(200, es) : es \in SeqsUpTo(ListingEntries, IF p >= MaxPages THEN PageSize - 1 ELSE PageSize)}
  \cup {Page(c, <<>>) : c \in {401, 500}}
  \cup {Raised}

\* d.get(key, default)
Get(v, default) == IF v = Absent THEN default ELSE v

\* the loop over current_batch: the entries kept, as the function lists them
RECURSIVE Kept(_, _)
Kept(entries, i) ==
  IF i > Len(entries) THEN <<>>
  ELSE LET d == entries[i]
           d_status == Get(d.domainStatus, "Unknown")
       IN (IF d_status \in AllowList
           THEN <<[domain |-> d.domainName,
                   scope |-> Get(d.validationScope, "DOMAIN"),
                   status |-> d_status]>>
           ELSE <<>>)
          \o Kept(entries, i + 1)

InitFetch ==
  /\ flow = "validate"
  /\ page = 1
  /\ domains_list = <<>>
  /\ fpc = "loop"
  /\ served = <<>>
  /\ reqs = <<>>
  /\ outstanding = 0
  /\ trace = <<>>
  /\ sheet = <<>> /\ loaded = NotRead
  /\ limit = 0
  /\ SubmitIdle
  /\ CreateIdle
  /\ ScriptIdle

\* response = session.get(url, params={'page': page, 'pageSize': page_size})
FetchGet ==
  /\ fpc = "loop"
  /\ page <= MaxPages
  /\ reqs' = Append(reqs, [method |-> "GET", page |-> page, pageSize |-> PageSize])
  /\ outstanding' = outstanding + 1
  /\ fpc' = "wait"
  /\ UNCHANGED <<flow, input, stack, last, status, returned, domain, cpc, cpost,
                 cget, cresult>>
  /\ UNCHANGED <<script, trace, sheet, loaded, page, domains_list, served, limit>>

\* the answer arrives: the rest of the loop body, up to the next request,
\* the return of the list or sys.exit(1)
FetchRespond ==
  /\ fpc = "wait"
  /\ \E resp \in Pages(page) :
       /\ served' = Append(served, resp)
       /\ IF resp.kind = "raise"
          THEN /\ fpc' = "exit"
               /\ UNCHANGED <<page, domains_list>>
          ELSE IF resp.code # 200
          THEN /\ fpc' = "done"
               /\ UNCHANGED <<page, domains_list>>
          ELSE IF resp.domains = <<>>
          THEN /\ fpc' = "done"
               /\ UNCHANGED <<page, domains_list>>
          ELSE /\ domains_list' = domains_list \o Kept(resp.domains, 1)
               /\ IF Len(resp.domains) < PageSize
                  THEN fpc' = "done" /\ UNCHANGED page
                  ELSE fpc' = "loop" /\ page' = page + 1
  /\ outstanding' = outstanding - 1
  /\ UNCHANGED <<flow, input, stack, last, reqs, status, returned, domain, cpc,
                 cpost, cget, cresult>>
  /\ UNCHANGED <<script, trace, sheet, loaded, limit>>

NextFetch == FetchGet \/ FetchRespond

SpecFetch == InitFetch /\ [][NextFetch]_vars

\* the interpreter runs the function on, and every request is answered
SpecFetchLive == SpecFetch /\ WF_vars(FetchGet) /\ WF_vars(FetchRespond)

(***************************************************************************)
(* The top-level scripts of the delete and validate flows: main            *)
(* (akamai_dom_delete.py) and process_domains (akamai_dom_validate.py).    *)
(* The loop slices the target list, passes each slice to the submitter     *)
(* (the state machine above) and extends all_results with what it          *)
(* returns.  reqs holds the requests of the top-level call in progress.    *)
(* The output file holds the records written to it; writing succeeds.      *)
(***************************************************************************)
MaxTargets == 3
MaxBatchSize == 2

\* the k-th target of the sheet: the first two share their domainName
ListedTarget(k) ==
  IF k % 3 = 1 THEN Target("a.com", "DOMAIN")
  ELSE IF k % 3 = 2 THEN Target("a.com", "M_HOST")
  ELSE Target("b.com", "DOMAIN")

TargetLists == {[k \in 1..n |-> ListedTarget(k)] : n \in 0..MaxTargets}

Min(a, b) == IF a <= b THEN a ELSE b

\* a slice that always starts at the head of the list
BatchAtHead(ts, i, bs) == SubSeq(ts, 1, Min(bs, Len(ts)))

\* targets[i:i+batch_size]
BatchAt(ts, i, bs) == SubSeq(ts, i + 1, Min(i + bs, Len(ts)))

\* the script has read its targets and is about to enter its loop
InitScript ==
  /\ flow \in {"delete", "validate"}
  /\ targets \in TargetLists
  /\ batch_size \in 1..MaxBatchSize
  /\ idx = 0
  /\ all_results = <<>>
  /\ output = NotWritten
  /\ spc = "loop"
  /\ submitted = <<>>
  /\ input = <<>> /\ stack = <<>> /\ last = NoResponse /\ status = "idle"
  /\ returned = <<>> /\ reqs = <<>> /\ outstanding = 0
  /\ CreateIdle
  /\ OthersIdle

\* if not targets: sys.exit(0) (delete only)
ExitNoTargets ==
  /\ spc = "loop"
  /\ flow = "delete"
  /\ targets = <<>>
  /\ spc' = "exited"
  /\ UNCHANGED <<flow, input, stack, last, reqs, outstanding, status, returned,
                 domain, cpc, cpost, cget, cresult>>
  /\ UNCHANGED <<targets, batch_size, idx, all_results, output, submitted>>
  /\ UNCHANGED others

\* batch = targets[i:i+batch_size]; the submitter is called with it
NextBatch ==
  /\ spc = "loop"
  /\ idx < Len(targets)
  /\ LET batch == BatchAt(targets, idx, batch_size)
     IN /\ input' = batch
        /\ stack' = <<NewFrame(batch)>>
        /\ submitted' = Append(submitted, batch)
  /\ status' = "running"
  /\ returned' = <<>>
  /\ reqs' = <<>>
  /\ last' = NoResponse
  /\ spc' = "call"
  /\ UNCHANGED <<flow, outstanding, domain, cpc, cpost, cget, cresult>>
  /\ UNCHANGED <<targets, batch_size, idx, all_results, output>>
  /\ UNCHANGED others

\* all_results.extend(batch_results), and the loop goes on to the next slice
Extend ==
  /\ spc = "call"
  /\ status = "returned"
  /\ all_results' = all_results \o returned
  /\ idx' = idx + batch_size
  /\ spc' = "loop"
  /\ status' = "idle"
  /\ stack' = <<>>
  /\ last' = NoResponse
  /\ UNCHANGED <<flow, input, reqs, outstanding, returned, domain, cpc, cpost, cget, cresult>>
  /\ UNCHANGED <<targets, batch_size, output, submitted>>
  /\ UNCHANGED others

\* the loop is over: the results are written (validate writes no file when
\* it has no results)
Finish ==
  /\ spc = "loop"
  /\ idx >= Len(targets)
  /\ flow = "delete" => targets # <<>>
  /\ output' = IF flow = "validate" /\ all_results = <<>> THEN NotWritten ELSE all_results
  /\ spc' = "done"
  /\ UNCHANGED <<flow, input, stack, last, reqs, outstanding, status, returned,
                 domain, cpc, cpost, cget, cresult>>
  /\ UNCHANGED <<targets, batch_size, idx, all_results, submitted>>
  /\ UNCHANGED others

\* a KeyboardInterrupt or an unexpected exception inside the loop, between
\* two batches or while the submitter runs (its handlers catch Exception
\* only, so an interrupt leaves it).  process_domains catches it and writes
\* all_results in its finally block; main has no handler: the script dies
\* and nothing is written
Interrupt ==
  /\ \/ spc = "call" /\ status = "running"
     \/ spc = "loop" /\ 0 < idx /\ idx < Len(targets)
  /\ IF flow = "validate"
     THEN /\ output' = IF all_results = <<>> THEN NotWritten ELSE all_results
          /\ spc' = "flushed"
     ELSE /\ output' = output
          /\ spc' = "killed"
  /\ stack' = <<>>
  /\ status' = "idle"
  /\ outstanding' = 0
  /\ last' = NoResponse
  /\ UNCHANGED <<flow, input, reqs, returned, domain, cpc, cpost, cget, cresult>>
  /\ UNCHANGED <<targets, batch_size, idx, all_results, submitted>>
  /\ UNCHANGED others

NextScript ==
  \/ ExitNoTargets \/ NextBatch \/ Extend \/ Finish \/ Interrupt
  \/ Send \/ CallOverflow \/ Respond \/ ReturnToParent \/ ReturnToCaller \/ Unwind

SpecScript == InitScript /\ [][NextScript]_vars

(***************************************************************************)
(* process_domains of the validate flow with --limit: the entries read     *)
(* from the sheet are cut to the limit before the loop over the batches.   *)
(* The submitter is answered with the responses that end its call at       *)
(* once: any status code with a body without entries, or a transport       *)
(* error.                                                                  *)
(***************************************************************************)
MaxLimit == 4

\* a cut that keeps one entry more than the limit
LimitedInclusive(entries, L) ==
  IF L > 0 THEN SubSeq(entries, 1, Min(L + 1, Len(entries))) ELSE entries

\* if limit > 0: domain_entries = domain_entries[:limit]
Limited(entries, L) ==
  IF L > 0 THEN SubSeq(entries, 1, Min(L, Len(entries))) ELSE entries

BriefResponses ==
  {r \in Responses("validate") : r.entries = <<>> /\ r.domains = <<>>}

\* domain_entries = read_domains(input_file) has returned
InitLimit ==
  /\ flow = "validate"
  /\ loaded \in {Loaded(ts) : ts \in TargetLists}
  /\ limit \in 0..MaxLimit
  /\ batch_size \in 1..MaxBatchSize
  /\ targets = <<>>
  /\ idx = 0
  /\ all_results = <<>>
  /\ output = NotWritten
  /\ spc = "read"
  /\ submitted = <<>>
  /\ input = <<>> /\ stack = <<>> /\ last = NoResponse /\ status = "idle"
  /\ returned = <<>> /\ reqs = <<>> /\ outstanding = 0
  /\ CreateIdle
  /\ trace = <<>>
  /\ sheet = <<>>
  /\ page = 0 /\ domains_list = <<>> /\ fpc = "none" /\ served = <<>>

\* the limit is applied and total = len(domain_entries) is taken
ApplyLimit ==
  /\ spc = "read"
  /\ targets' = Limited(loaded.targets, limit)
  /\ spc' = "loop"
  /\ UNCHANGED <<flow, input, stack, last, reqs, outstanding, status, returned,
                 domain, cpc, cpost, cget, cresult>>
  /\ UNCHANGED <<batch_size, idx, all_results, output, submitted>>
  /\ UNCHANGED others

\* the response arrives; the invocation records the whole batch and returns
RespondBrief ==
  /\ Submitting
  /\ Top.pc = "wait"
  /\ \E resp \in BriefResponses :
       /\ stack' = SetTop(Handle(flow, Top, resp))
       /\ last' = Seen(resp)
  /\ outstanding' = outstanding - 1
  /\ UNCHANGED <<flow, input, reqs, status, returned, domain, cpc, cpost, cget, cresult>>
  /\ UNCHANGED extra

NextLimit ==
  \/ ApplyLimit \/ NextBatch \/ Extend \/ Finish \/ Interrupt
  \/ Send \/ RespondBrief \/ ReturnToCaller

SpecLimit == InitLimit /\ [][NextLimit]_vars

(***************************************************************************)
(* process_domains of the create script (akamai_dom_script.py): the loop   *)
(* over the domains read from the sheet.  targets holds the domains, idx   *)
(* the loop index, all_results the rows appended so far and submitted the  *)
(* domains create_domain_validation was called with.                       *)
(***************************************************************************)
MaxDomains == 2

\* the k-th domain of the sheet
ListedDomain(k) == IF k % 2 = 1 THEN "a.com" ELSE "b.com"

DomainLists == {[k \in 1..n |-> ListedDomain(k)] : n \in 0..MaxDomains}

Row(d, pair) == [Domain |-> d, Name |-> pair[1], Token |-> pair[2]]

\* domains = read_domains(input_file) has returned
InitCreateScript ==
  /\ flow = "create"
  /\ targets \in DomainLists
  /\ batch_size = 1
  /\ idx = 0
  /\ all_results = <<>>
  /\ output = NotWritten
  /\ spc = "loop"
  /\ submitted = <<>>
  /\ reqs = <<>>
  /\ outstanding = 0
  /\ CreateIdle
  /\ SubmitIdle
  /\ OthersIdle

\* for i, domain in enumerate(domains): create_domain_validation is called
CreateCall ==
  /\ flow = "create"
  /\ spc = "loop"
  /\ idx < Len(targets)
  /\ domain' = targets[idx + 1]
  /\ cpc' = "start"
  /\ cpost' = NoCreateResponse
  /\ cget' = NoCreateResponse
  /\ cresult' = <<>>
  /\ submitted' = Append(submitted, targets[idx + 1])
  /\ spc' = "call"
  /\ UNCHANGED <<flow, input, stack, last, reqs, outstanding, status, returned>>
  /\ UNCHANGED <<targets, batch_size, idx, all_results, output>>
  /\ UNCHANGED others

\* name, token = ...; results.append({"Domain", "Name", "Token"})
AppendRow ==
  /\ flow = "create"
  /\ spc = "call"
  /\ cpc = "done"
  /\ all_results' = Append(all_results, Row(domain, cresult))
  /\ idx' = idx + 1
  /\ spc' = "loop"
  /\ domain' = ""
  /\ cpc' = "idle"
  /\ cresult' = <<>>
  /\ cpost' = [kind |-> "none"]
  /\ cget' = [kind |-> "none"]
  /\ UNCHANGED <<flow, input, stack, last, reqs, outstanding, status, returned>>
  /\ UNCHANGED <<targets, batch_size, output, submitted>>
  /\ UNCHANGED others

\* the loop is over: the finally block writes the rows, if any
CreateFinish ==
  /\ flow = "create"
  /\ spc = "loop"
  /\ idx >= Len(targets)
  /\ output' = IF all_results = <<>> THEN NotWritten ELSE all_results
  /\ spc' = "done"
  /\ UNCHANGED <<flow, input, stack, last, reqs, outstanding, status, returned,
                 domain, cpc, cpost, cget, cresult>>
  /\ UNCHANGED <<targets, batch_size, idx, all_results, submitted>>
  /\ UNCHANGED others

\* a KeyboardInterrupt while a request is outstanding or between two
\* domains: the loop is left and the finally block writes the rows
CreateInterrupt ==
  /\ flow = "create"
  /\ \/ spc = "call" /\ cpc \in {"post", "get"}
     \/ spc = "loop" /\ 0 < idx /\ idx < Len(targets)
  /\ output' = IF all_results = <<>> THEN NotWritten ELSE all_results
  /\ spc' = "flushed"
  /\ outstanding' = 0
  /\ domain' = ""
  /\ cpc' = "idle"
  /\ cresult' = <<>>
  /\ cpost' = [kind |-> "none"]
  /\ cget' = [kind |-> "none"]
  /\ UNCHANGED <<flow, input, stack, last, reqs, status, returned>>
  /\ UNCHANGED <<targets, batch_size, idx, all_results, submitted>>
  /\ UNCHANGED others

NextCreateScript ==
  \/ CreateCall \/ AppendRow \/ CreateFinish \/ CreateInterrupt
  \/ CreatePost \/ CreatePostResponse \/ CreateGetResponse

SpecCreateScript == InitCreateScript /\ [][NextCreateScript]_vars

(***************************************************************************)
(* Properties.                                                             *)
(***************************************************************************)
Count(seq, x) == Cardinality({k \in 1..Len(seq) : seq[k] = x})

Elements(seq) == {seq[k] : k \in 1..Len(seq)}

RecordIdentities(recs) == [k \in 1..Len(recs) |-> Identity(recs[k])]

BatchIdentities(batch) == [k \in 1..Len(batch) |-> TargetIdentity(batch[k])]

SameMultiset(s, t) == \A x \in Elements(s) \cup Elements(t) : Count(s, x) = Count(t, x)

\* the targets of batch at the zero-based positions P, in batch order
AtPositions(batch, P) == SelectIdx(batch, {k \in 1..Len(batch) : (k - 1) \in P}, 1)

\* a response was classified in the step that led to this state
Answered == last.kind = "response"

\* the invocation that classified it: the top frame, or its caller when the
\* top frame is the retry it has just invoked
Handler == IF Top.pc = "start" THEN stack[Len(stack) - 1] ELSE Top

Retried == Top.pc = "start"

\* every record of recs has the given status code and result
AllRecords(recs, code, result) ==
  \A k \in 1..Len(recs) : recs[k].StatusCode = code /\ recs[k].Result = result

\* recs holds one record per target of batch, in batch order
OnePerTarget(recs, batch) == RecordIdentities(recs) = BatchIdentities(batch)

\* C1 (coverage): the list a top-level call returns has exactly the multiset of
\* (domainName, validationScope) identities of the input batch
C1_Coverage ==
  status = "returned" =>
    SameMultiset(RecordIdentities(returned), BatchIdentities(input))

\* C2 (termination): every resubmission is on a batch strictly smaller than
\* the batch that received the 400, and a 400 from which no index could be
\* extracted makes no further request
C2_RetriesShrink ==
  /\ \A k \in 2..Len(stack) : Len(stack[k].batch) < Len(stack[k - 1].batch)
  /\ \A k \in 1..Len(stack) :
       stack[k].path \in {"400-unlocalized", "400-unparsed"} => stack[k].calls = <<>>

\* C3 (never raises): no exception leaves the top-level call, whatever the
\* status, the body shape or the transport does; the call ends returning a
\* list of outcome records
C3_NeverRaises ==
  /\ stack[1].pc # "raised"
  /\ status \in {"running", "returned"}
  /\ status = "returned" =>
       \A k \in 1..Len(returned) :
         /\ Identity(returned[k]) \in Elements(BatchIdentities(input))
         /\ returned[k].Result \in
              {"Success", "Submitted", "Multi-Status", "Failed", "Error", "Exception"}

\* C3 witness: a call returned its records after the parsing of a 400 body
\* raised AttributeError (a JSON value that is no object, or an entry whose
\* field is no string)
C3_Witness ==
  /\ status = "returned"
  /\ input # <<>>
  /\ stack[1].exc = "AttributeError"
  /\ Len(returned) >= 1

\* the 400 just classified cites the index set S, all of it positions of the batch
LocalizedIn(S) ==
  /\ Answered
  /\ last.status_code = "400"
  /\ last.bad_indices = S
  /\ S # {}
  /\ S \subseteq 0..(Len(Handler.batch) - 1)

\* C4 as claimed (index localization): the targets at the cited positions are
\* recorded Failed and the submitter is invoked exactly once more, on the
\* uncited targets in their original order
C4_Original ==
  \A S \in SUBSET (0..(MaxBatch - 1)) :
    LocalizedIn(S) =>
      /\ OnePerTarget(Handler.own, AtPositions(Handler.batch, S))
      /\ AllRecords(Handler.own, "400", "Failed")
      /\ Handler.calls = <<AtPositions(Handler.batch, (0..(Len(Handler.batch) - 1)) \ S)>>

\* C4 as amended: when it classifies the 400 the invocation records exactly
\* the cited targets Failed, and it invokes the submitter on the uncited
\* targets in their original order: once if there is one, not at all if the
\* 400 cites every position; no invocation ever makes a second call
C4_IndexLocalization ==
  /\ \A S \in SUBSET (0..(MaxBatch - 1)) :
       LocalizedIn(S) =>
         LET uncited == AtPositions(Handler.batch, (0..(Len(Handler.batch) - 1)) \ S)
         IN /\ OnePerTarget(Handler.own, AtPositions(Handler.batch, S))
            /\ AllRecords(Handler.own, "400", "Failed")
            /\ Handler.results = Handler.own
            /\ Handler.calls = IF uncited # <<>> THEN <<uncited>> ELSE <<>>
            /\ Retried <=> uncited # <<>>
            /\ Retried => Top.batch = uncited
  /\ \A k \in 1..Len(stack) : Len(stack[k].calls) <= 1

\* C4 witness: a 400 for three targets cited the middle one; the other two
\* were resubmitted in their order
C4_Witness ==
  /\ LocalizedIn({1})
  /\ Len(Handler.batch) = 3
  /\ Retried
  /\ Top.batch = <<Handler.batch[1], Handler.batch[3]>>
  /\ Handler.batch[1] # Handler.batch[3]

\* the 400 just classified is an object whose errors list is missing, empty
\* or holds no entry that yields an index
Unlocalized ==
  /\ Answered
  /\ last.status_code = "400"
  /\ last.json = "object"
  /\ last.errors \in {"missing", "list"}
  /\ ~last.nonstring
  /\ last.bad_indices = {}

\* C5 (unlocalized 400): every target of the batch is recorded Failed with
\* status 400 and the top-level title and detail, and no further request is
\* made for the batch
C5_Unlocalized ==
  Unlocalized =>
    /\ ~Retried
    /\ Top.pc = "ret"
    /\ Top.calls = <<>>
    /\ Top.results = Top.own
    /\ OnePerTarget(Top.own, Top.batch)
    /\ AllRecords(Top.own, "400", "Failed")
    /\ \A k \in 1..Len(Top.own) :
         Top.own[k].ErrorTitle = TopTitle /\ Top.own[k].ErrorDetail = TopDetail

\* C5 witness: a 400 whose one entry yields no index failed a batch of two
C5_Witness ==
  /\ Unlocalized
  /\ last.nerrors >= 1
  /\ Len(Top.batch) = 2
  /\ Len(Top.own) = 2

\* a frame whose inner handler ran its fallback
FellBack(fr) == fr.status_code = "400" /\ fr.exc # "" /\ fr.pc = "ret"

\* C6 (fallback): after the fallback every target of the batch has a record
\* (none dropped) and no identity has more records than the batch has
\* targets of it (none duplicated)
C6_FallbackCovers ==
  \A k \in 1..Len(stack) :
    FellBack(stack[k]) =>
      LET ids == BatchIdentities(stack[k].batch)
          got == RecordIdentities(stack[k].results)
      IN /\ \A x \in Elements(ids) : Count(got, x) >= 1
         /\ \A x \in Elements(got) : Count(got, x) <= Count(ids, x)

\* the records of a whole-batch success of the flow
SuccessResult(f) == IF f = "delete" THEN "Success" ELSE "Submitted"

WholeBatch(code, result) ==
  /\ ~Retried
  /\ Top.pc = "ret"
  /\ Top.results = Top.own
  /\ OnePerTarget(Top.own, Top.batch)
  /\ AllRecords(Top.own, code, result)

\* C7 as claimed (success classification): 200, 201, 202 and 204 are
\* whole-batch success in both flows
C7_Original ==
  \A c \in {"200", "201", "202", "204"} :
    (Answered /\ last.status_code = c) => WholeBatch(c, SuccessResult(flow))

\* C7 as amended: delete takes 200 and 204 as whole-batch success, validate
\* 200 and 202; delete records 201 and 202, and validate 201 and 204, as
\* whole-batch Error
C7_SuccessClassification ==
  \A c \in {"200", "201", "202", "204"} :
    (Answered /\ last.status_code = c) =>
      IF \/ flow = "delete" /\ c \in {"200", "204"}
         \/ flow = "validate" /\ c \in {"200", "202"}
      THEN WholeBatch(c, SuccessResult(flow))
      ELSE WholeBatch(c, "Error")

\* C7 witness: a 204 made delete record Success for two targets
C7_Witness ==
  /\ flow = "delete"
  /\ Answered
  /\ last.status_code = "204"
  /\ Len(Top.batch) = 2
  /\ AllRecords(Top.own, "204", "Success")
  /\ Len(Top.own) = 2

\* the raw payload of the response just classified
Payload == IF last.json = "invalid" THEN ResponseText ELSE ParsedText

\* C8 as claimed (multi-status): a 207 makes both submitters record
\* Multi-Status for every target, with the raw payload
C8_Original ==
  (Answered /\ last.status_code = "207") =>
    /\ WholeBatch("207", "Multi-Status")
    /\ \A k \in 1..Len(Top.own) : Top.own[k].Details = Payload

\* C8 as amended: a 207 makes delete_domains record Multi-Status for every
\* target with the raw payload (parsed or not); bulk_submit_validation
\* records every target as Error with the response text
C8_MultiStatus ==
  (Answered /\ last.status_code = "207") =>
    IF flow = "delete"
    THEN /\ WholeBatch("207", "Multi-Status")
         /\ \A k \in 1..Len(Top.own) : Top.own[k].Details = Payload
    ELSE /\ WholeBatch("207", "Error")
         /\ \A k \in 1..Len(Top.own) : Top.own[k].Details = ResponseText

\* C8 witness: a 207 whose body is no JSON made delete record Multi-Status
C8_Witness ==
  /\ flow = "delete"
  /\ Answered
  /\ last.status_code = "207"
  /\ last.json = "invalid"
  /\ Len(Top.own) = 2
  /\ AllRecords(Top.own, "207", "Multi-Status")

\* C10 as claimed (409 in the validate flow): the submitter looks the
\* targets up with a GET and records no Error or Failed for them
C10_Original ==
  (flow = "validate" /\ Answered /\ last.status_code = "409") =>
    /\ \A k \in 1..Len(Top.own) : Top.own[k].Result \notin {"Error", "Failed"}
    /\ \E k \in 1..Len(reqs) : reqs[k].method = "GET"

\* C10 as amended: bulk_submit_validation has no 409 fallback: it records
\* every target of the batch as Error with status 409 and the response text,
\* and it never sends a GET
C10_Conflict ==
  /\ \A k \in 1..Len(reqs) : reqs[k].method # "GET"
  /\ (flow = "validate" /\ Answered /\ last.status_code = "409") =>
       /\ WholeBatch("409", "Error")
       /\ \A k \in 1..Len(Top.own) : Top.own[k].Details = ResponseText

\* C10 witness: a 409 made validate record Error for two targets
C10_Witness ==
  /\ flow = "validate"
  /\ Answered
  /\ last.status_code = "409"
  /\ Len(Top.own) = 2
  /\ AllRecords(Top.own, "409", "Error")

\* what the GET's response means, in the words of the claim
GetOutcome(resp, d) ==
  IF resp.kind = "raise" THEN "Exception GET: ConnectionError"
  ELSE IF resp.status_code # "200" THEN "Error GET: " \o resp.status_code
  ELSE IF resp.json = "invalid" THEN "Exception GET: JSONDecodeError"
  ELSE IF resp.json = "list" THEN "Exception GET: AttributeError"
  ELSE IF resp.self.status = "VALIDATED" THEN "Already Validated"
  ELSE IF resp.self.txtValue \in {TokenValue("GET", x) : x \in DomainNames \cup {"other.com"}}
  THEN resp.self.txtValue
  ELSE "Token not found"

\* C9 (409 fallback on create): a 409 to the create POST is followed by
\* exactly one GET to the detail endpoint of the domain, after the POST, and
\* the call returns the GET's outcome and nothing of the POST response
C9_ConflictFallback ==
  /\ \A k \in 1..Len(reqs) : reqs[k].method = "GET" => k = 2
  /\ reqs # <<>> => reqs[1] = CreateRequest(domain)
  /\ cpost.status_code = "409" =>
       /\ reqs = <<CreateRequest(domain), DetailRequest(domain)>>
       /\ cpc \in {"get", "done"}
       /\ cpc = "done" =>
            /\ cresult[2] = GetOutcome(cget, domain)
            /\ cresult[2] # "Error: 409"
            /\ cresult[2] # TokenValue("POST", domain)

\* C9 witness: the 409 carried a token of its own in its body, and the call
\* returned the token of the GET
C9_Witness ==
  /\ cpc = "done"
  /\ cpost.status_code = "409"
  /\ cpost.self.txtValue = TokenValue("POST", domain)
  /\ cresult = <<TokenName(domain), TokenValue("GET", domain)>>

\* the request just answered ended by the transport raising
TransportRaised == last.kind = "raise"

\* C11 (whole-batch Error/Exception): a status code that is neither a
\* success code, 207 nor 400 gives one Error record per target of the
\* batch with that code and the response text; a transport exception gives
\* one Exception record per target with the exception message; in both
\* cases the invocation returns without a further request
C11_ErrorOrException ==
  /\ \A c \in StatusCodes \ {"200", "201", "202", "204", "207", "400"} :
       (Answered /\ last.status_code = c) =>
         /\ WholeBatch(c, "Error")
         /\ Top.calls = <<>>
         /\ \A k \in 1..Len(Top.own) : Top.own[k].Details = ResponseText
  /\ TransportRaised =>
       /\ WholeBatch("Exception", "Exception")
       /\ Top.calls = <<>>
       /\ \A k \in 1..Len(Top.own) : Top.own[k].ErrorDetail = "ConnectionError"

\* C11 witness: a 500 to a retry of two targets made the retry record two
\* Error records
C11_Witness ==
  /\ Answered
  /\ last.status_code = "500"
  /\ Len(stack) = 2
  /\ Len(Top.own) = 2
  /\ AllRecords(Top.own, "500", "Error")

\* the status code is one the flow takes as whole-batch success
TakenAsSuccess(c) ==
  \/ flow = "delete" /\ c \in {"200", "204"}
  \/ flow = "validate" /\ c \in {"200", "202"}

\* the second request of the call, the retry of a localized 400, has just
\* been answered with a success code
RetrySucceeded ==
  /\ Answered
  /\ TakenAsSuccess(last.status_code)
  /\ Len(stack) = 2
  /\ Len(reqs) = 2
  /\ stack[1].path = "400-localized"

\* the records are Failed records of the targets of batch at the positions
\* S followed by success records of the targets at the other positions
Composition(recs, batch, S) ==
  LET cited == AtPositions(batch, S)
      uncited == AtPositions(batch, (0..(Len(batch) - 1)) \ S)
  IN /\ Len(recs) = Len(batch)
     /\ OnePerTarget(SubSeq(recs, 1, Len(cited)), cited)
     /\ \A k \in 1..Len(cited) : recs[k].Result = "Failed" /\ recs[k].StatusCode = "400"
     /\ OnePerTarget(SubSeq(recs, Len(cited) + 1, Len(recs)), uncited)
     /\ \A k \in (Len(cited) + 1)..Len(recs) : recs[k].Result = SuccessResult(flow)

\* C13 (result composition after a retry): when the first request gets a 400
\* citing in-range indices and the retry of the uncited targets gets a
\* success code, the records are one Failed record per cited target followed
\* by one Success/Submitted record per uncited target in original order,
\* n records in all; the return of the retry appends its records after the
\* caller's, and the top-level call returns that list
C13_Composition ==
  /\ [](RetrySucceeded =>
          \E S \in SUBSET (0..(MaxBatch - 1)) :
            /\ S \subseteq 0..(Len(input) - 1)
            /\ Top.batch = AtPositions(input, (0..(Len(input) - 1)) \ S)
            /\ Composition(stack[1].results \o Top.results, input, S))
  /\ [][/\ (Len(stack) = 2 /\ Top.pc = "ret" /\ Len(stack') = 1 /\ stack[1].exc = "")
             => stack'[1].results = stack[1].results \o Top.results
        /\ (status = "running" /\ status' = "returned")
             => returned' = stack[1].results /\ stack' = stack]_vars

\* C13 witness: three targets, the 400 cited index 1, the retry succeeded:
\* the call returned Failed for the second target, then success records for
\* the first and the third
C13_Witness ==
  /\ status = "returned"
  /\ Len(input) = 3
  /\ Len(reqs) = 2
  /\ input[1] # input[3]
  /\ Len(returned) = 3
  /\ Identity(returned[1]) = TargetIdentity(input[2]) /\ returned[1].Result = "Failed"
  /\ Identity(returned[2]) = TargetIdentity(input[1])
  /\ Identity(returned[3]) = TargetIdentity(input[3])
  /\ returned[2].Result = SuccessResult(flow)
  /\ returned[3].Result = SuccessResult(flow)

\* the entries of the 400 just classified whose field holds "domains[i]"
Referring(i) == {k \in 1..Len(last.fields) : last.fields[k] = FieldExact(i)}

\* the record the handler appended for the target it found cited at the
\* (zero-based, in-range) position i
RecordOfCited(i) ==
  Handler.own[Cardinality({x \in last.bad_indices : 0 <= x /\ x <= i})]

CitedInRange ==
  {i \in last.bad_indices : 0 <= i /\ i < Len(Handler.batch)}

Localized == Answered /\ last.status_code = "400" /\ last.bad_indices # {}

\* the detail of the first entry, in list order, whose field references i
FirstDetail(i) ==
  ErrorEntry(FieldExact(i), CHOOSE k \in Referring(i) : \A j \in Referring(i) : k <= j).detail

\* C17 as claimed (detail of a cited target): the Failed record of a target
\* cited at index i carries the detail of the first entry whose field
\* references i, and the top-level detail of the body when no entry's field
\* matches, in both flows
C17_Original ==
  Localized =>
    \A i \in CitedInRange :
      RecordOfCited(i).ErrorDetail =
        IF Referring(i) # {} THEN FirstDetail(i) ELSE TopDetail

\* C17 as amended: the Failed record of a target cited at index i carries
\* the detail of the first entry whose field references i; when no entry's
\* field matches, delete_domains records the top-level detail of the body
\* and bulk_submit_validation the literal "Invalid Request"
C17_CitedDetail ==
  Localized =>
    \A i \in CitedInRange :
      /\ Identity(RecordOfCited(i)) = TargetIdentity(Handler.batch[i + 1])
      /\ RecordOfCited(i).ErrorDetail =
           IF Referring(i) # {} THEN FirstDetail(i)
           ELSE IF flow = "delete" THEN TopDetail ELSE "Invalid Request"

\* C17 witness: index 1 was cited by "domains[01]" alone and the delete flow
\* recorded the top-level detail; and a second entry was the first to
\* reference a cited index
C17_Witness ==
  /\ Localized
  /\ flow = "delete"
  /\ last.fields = <<FieldPadded(1), FieldExact(0)>>
  /\ Len(Handler.batch) = 2
  /\ Handler.own[1].ErrorDetail = ErrorEntry(FieldExact(0), 2).detail
  /\ Handler.own[2].ErrorDetail = TopDetail

\* the invocation has sent its request
HasSent(fr) == fr.pc \in {"wait", "called", "ret"} \/ fr.path # ""

\* the domains array names the targets of batch, entry by entry
ListsBatch(req, batch) ==
  /\ Len(req.domains) = Len(batch)
  /\ \A i \in 1..Len(batch) :
       /\ req.domains[i].domainName = batch[i].domainName
       /\ req.domains[i].validationScope = batch[i].validationScope

\* the depth of the invocation that classified the last response
HandlerDepth == IF Retried THEN Len(stack) - 1 ELSE Len(stack)

\* C18 (one request per invocation, indexed by position): the k-th nested
\* invocation sends one request, the k-th of the call, before it classifies
\* anything; its domains array lists the targets of the current batch in
\* batch order; and an index cited by the response is resolved against the
\* batch of the invocation that sent the request
C18_OneRequestByPosition ==
  /\ [](/\ \A k \in 1..Len(stack) :
             /\ HasSent(stack[k]) => k <= Len(reqs) /\ ListsBatch(reqs[k], stack[k].batch)
             /\ ~HasSent(stack[k]) => k = Len(stack) /\ stack[k].own = <<>>
        /\ Len(reqs) <= RecursionLimit
        /\ outstanding = IF Top.pc = "wait" THEN 1 ELSE 0
        /\ Localized =>
             \A i \in CitedInRange :
               LET entry == reqs[HandlerDepth].domains[i + 1]
               IN Identity(RecordOfCited(i)) = <<entry.domainName, entry.validationScope>>)
  /\ [][/\ Len(reqs') \in {Len(reqs), Len(reqs) + 1}
        /\ Len(reqs') = Len(reqs) + 1 =>
             /\ Top.pc = "start"
             /\ Len(stack') = Len(stack)
             /\ stack'[Len(stack)].pc = "wait"
             /\ SubSeq(reqs', 1, Len(reqs)) = reqs
             /\ Len(reqs') = Len(stack)]_vars

\* C18 witness: the retry of the second and third target got a 400 citing
\* index 0, and the record is for the second target of the input
C18_Witness ==
  /\ Localized
  /\ HandlerDepth = 2
  /\ Len(input) = 3
  /\ input[1] # input[2]
  /\ last.bad_indices = {0}
  /\ stack[2].batch = <<input[2], input[3]>>
  /\ Identity(stack[2].own[1]) = TargetIdentity(input[2])
  /\ ListsBatch(reqs[2], <<input[2], input[3]>>)

RECURSIVE Flatten(_)
Flatten(seqs) == IF seqs = <<>> THEN <<>> ELSE Head(seqs) \o Flatten(Tail(seqs))

\* the j-th consecutive slice of size bs of the list ts
Slice(ts, j, bs) ==
  [k \in 1..(IF j * bs <= Len(ts) THEN bs ELSE Len(ts) - (j - 1) * bs) |->
     ts[(j - 1) * bs + k]]

\* the number of batches whose submission returned and whose records were
\* appended to all_results
Completed == IF spc = "call" THEN Len(submitted) - 1 ELSE Len(submitted)

\* the script was stopped inside its loop
Interrupted == spc \in {"flushed", "killed"}

\* C12 (flush on interruption): when a keyboard interrupt or an unexpected
\* exception stops the loop after k >= 1 batches have completed, the output
\* file is written and holds exactly the records of the k completed batches
\* in order, and no record of the batch that was in progress
C12_FlushOnInterruption ==
  (Interrupted /\ idx >= batch_size) =>
    /\ output # NotWritten
    /\ output = all_results
    /\ \A k \in 1..Len(output) :
         Identity(output[k]) \in Elements(BatchIdentities(SubSeq(targets, 1, idx)))

\* C14 (strict sequencing): at most one request is outstanding; a request is
\* sent only inside the submission of the current batch; the batches are the
\* slices of the target list in order; the next batch is started only when
\* the submission of the previous one returned, nothing is outstanding and
\* its records were appended to all_results
C14_StrictSequencing ==
  /\ [](/\ outstanding \in {0, 1}
        /\ outstanding = 1 => spc = "call" /\ status = "running"
        /\ \A j \in 1..Len(submitted) : submitted[j] = Slice(targets, j, batch_size)
        /\ spc = "call" =>
             /\ input = submitted[Len(submitted)]
             /\ idx = (Len(submitted) - 1) * batch_size
             /\ status = "running" => stack[1].batch = input
        /\ spc = "loop" => idx = Len(submitted) * batch_size /\ outstanding = 0)
  /\ [][/\ Len(submitted') > Len(submitted) =>
             /\ spc = "loop" /\ outstanding = 0 /\ stack = <<>>
             /\ submitted' = Append(submitted, Slice(targets, Len(submitted) + 1, batch_size))
             /\ reqs' = <<>>
        /\ (spc = "call" /\ spc' = "loop") =>
             /\ status = "returned" /\ outstanding = 0
             /\ all_results' = all_results \o returned
        /\ all_results' # all_results => spc = "call" /\ spc' = "loop"
        /\ Len(reqs') > Len(reqs) =>
             /\ spc = "call" /\ spc' = "call"
             /\ outstanding = 0 /\ outstanding' = 1
             /\ Elements(reqs'[Len(reqs')].domains) \subseteq
                  {PayloadEntry(flow, input[k]) : k \in 1..Len(input)}]_vars

\* C14 witness: the retry of the second batch is outstanding, and the
\* records of the first batch are in all_results
C14_Witness ==
  /\ spc = "call"
  /\ Len(submitted) = 2
  /\ outstanding = 1
  /\ Len(reqs) = 2
  /\ Len(all_results) >= 1
  /\ submitted[1] # submitted[2]

\* C19 (batch partition): the top-level batches are consecutive slices of the
\* target list, each of size <= batch size and all but the last of exactly
\* batch size; their concatenation is the whole list once the loop is over,
\* and the accumulated output then has as many records as there are targets
C19_BatchPartition ==
  /\ \A j \in 1..Len(submitted) :
       /\ 1 <= Len(submitted[j]) /\ Len(submitted[j]) <= batch_size
       /\ j < Len(submitted) => Len(submitted[j]) = batch_size
  /\ Flatten(submitted) = SubSeq(targets, 1, Len(Flatten(submitted)))
  /\ spc = "done" =>
       /\ Flatten(submitted) = targets
       /\ Len(all_results) = Len(targets)

DomainColumnOf(sh) ==
  LET found == FirstColumn(Normalized(sh.columns), DomainNamesOfColumn)
  IN IF found = 0 THEN 1 ELSE found

ScopeColumnOf(sh) == FirstColumn(Normalized(sh.columns), ScopeNamesOfColumn)

\* the rows whose domain cell is not blank, in sheet order
DomainRows(sh) ==
  SelectIdx([i \in 1..Len(sh.rows) |-> i],
            {i \in 1..Len(sh.rows) : ~BlankDomain(sh.rows[i][DomainColumnOf(sh)])}, 1)

\* one target per non-blank domain row, each with validationScope 'DOMAIN'
DefaultTargets(sh) ==
  [j \in 1..Len(DomainRows(sh)) |->
     Target(Lower(Strip(sh.rows[DomainRows(sh)[j]][DomainColumnOf(sh)])), "DOMAIN")]

HasRead == loaded.kind # "none"

\* C16 as stated (scope default in both readers): a sheet without a
\* scope-like column is read into one target per non-blank domain row with
\* validationScope 'DOMAIN', and a blank scope cell yields 'DOMAIN'
C16_Original ==
  HasRead =>
    /\ ScopeColumnOf(sheet) = 0 => loaded = Loaded(DefaultTargets(sheet))
    /\ ScopeColumnOf(sheet) # 0 =>
         /\ loaded.kind = "returned"
         /\ Len(loaded.targets) = Len(DomainRows(sheet))
         /\ \A j \in 1..Len(DomainRows(sheet)) :
              BlankDomain(sheet.rows[DomainRows(sheet)[j]][ScopeColumnOf(sheet)])
                => loaded.targets[j].validationScope = "DOMAIN"

\* C16 (scope default, amended): only read_domains of the validate flow
\* defaults a missing scope column: for a sheet with at least one column and
\* no scope-like column it returns one target per non-blank domain row with
\* validationScope 'DOMAIN'; read_delete_targets ends the run there, and
\* both end the run on a sheet without columns.  With a scope-like column
\* both return one target per non-blank domain row, an empty (NaN) scope
\* cell giving 'DOMAIN' and a whitespace-only scope cell giving ''
C16_ScopeDefault ==
  HasRead =>
    /\ sheet.columns = <<>> => loaded = SysExit
    /\ (ScopeColumnOf(sheet) = 0 /\ flow = "delete") => loaded = SysExit
    /\ (ScopeColumnOf(sheet) = 0 /\ flow = "validate" /\ sheet.columns # <<>>)
         => loaded = Loaded(DefaultTargets(sheet))
    /\ ScopeColumnOf(sheet) # 0 =>
         /\ loaded.kind = "returned"
         /\ Len(loaded.targets) = Len(DomainRows(sheet))
         /\ \A j \in 1..Len(DomainRows(sheet)) :
              LET sc == sheet.rows[DomainRows(sheet)[j]][ScopeColumnOf(sheet)]
              IN /\ sc = NaN => loaded.targets[j].validationScope = "DOMAIN"
                 /\ sc = "  " => loaded.targets[j].validationScope = ""

\* C16 witness: the delete reader has ended the run on a sheet that has a
\* domain row and no scope-like column
C16_Witness ==
  /\ flow = "delete"
  /\ HasRead
  /\ ScopeColumnOf(sheet) = 0
  /\ Len(DomainRows(sheet)) = 1
  /\ Len(sheet.rows) = 2
  /\ loaded = SysExit

\* a page that ends the listing: not answered with 200, empty, or shorter
\* than the page size
EndsListing(resp) ==
  /\ resp.kind = "response"
  /\ \/ resp.code # 200
     \/ Len(resp.domains) = 0
     \/ Len(resp.domains) < PageSize

\* the entries of the pages answered with 200, in listing order
RECURSIVE Listed(_, _)
Listed(pages, k) ==
  IF k > Len(pages) THEN <<>>
  ELSE (IF pages[k].kind = "response" /\ pages[k].code = 200
        THEN pages[k].domains ELSE <<>>) \o Listed(pages, k + 1)

\* the entries whose domainStatus is REQUEST_ACCEPTED or
\* VALIDATION_IN_PROGRESS, as the records the function returns for them
Ready(entries) ==
  LET idxs == SelectIdx([i \in 1..Len(entries) |-> i],
                        {i \in 1..Len(entries) :
                           entries[i].domainStatus \in
                             {"REQUEST_ACCEPTED", "VALIDATION_IN_PROGRESS"}}, 1)
  IN [j \in 1..Len(idxs) |->
        [domain |-> entries[idxs[j]].domainName,
         scope |-> IF entries[idxs[j]].validationScope = Absent THEN "DOMAIN"
                   ELSE entries[idxs[j]].validationScope,
         status |-> entries[idxs[j]].domainStatus]]

Fetching == fpc # "none"

\* C20 (remote listing): fetch_all_domains requests the pages 1, 2, 3, ...
\* in increasing order, one at a time, each with the page size; it sends no
\* request after a page that ends the listing (not answered with 200,
\* empty, or shorter than the page size) and returns when it receives the
\* first such page, a page not answered with 200 included; what it returns
\* is the allow-listed entries of the pages received, in listing order; and
\* it terminates when the server eventually answers with such a page
C20_RemoteListing ==
  /\ [](Fetching =>
         /\ \A k \in 1..Len(reqs) : reqs[k].page = k /\ reqs[k].pageSize = PageSize
         /\ outstanding \in {0, 1}
         /\ Len(served) = Len(reqs) - outstanding
         /\ \A k \in 1..Len(served) :
              k < Len(served) => ~EndsListing(served[k]) /\ served[k].kind = "response"
         /\ (served # <<>> /\ EndsListing(served[Len(served)])) => fpc = "done"
         /\ fpc = "done" => served # <<>> /\ EndsListing(served[Len(served)])
         /\ fpc \in {"done", "loop", "wait"} => domains_list = Ready(Listed(served, 1)))
  /\ [][Fetching /\ fpc \in {"done", "exit"} => UNCHANGED <<reqs, served, domains_list>>]_vars
  /\ (Fetching ~> fpc \in {"done", "exit"})

\* C20 witness: the listing returned on the third page, answered with a
\* code other than 200, with entries of the first two pages
C20_Witness ==
  /\ fpc = "done"
  /\ Len(reqs) = 3
  /\ served[3].code = 500
  /\ Len(domains_list) = 3
  /\ Len(Listed(served, 1)) = 4

\* the entries of a domains list with the name and scope of the target d,
\* and those with its name
SameKey(domains, d) ==
  {k \in 1..Len(domains) : /\ domains[k].domainName = d.domainName
                           /\ domains[k].validationScope = d.validationScope}

SameName(domains, d) == {k \in 1..Len(domains) : domains[k].domainName = d.domainName}

\* the status an entry carries ('Submitted' for an entry without one)
CarriedStatus(rd) == IF rd.domainStatus = NoValue THEN "Submitted" ELSE rd.domainStatus

\* C21 (per-target status on success, validate flow): after a 200/202 whose
\* body lists per-domain statuses there is exactly one record per target,
\* in batch order, and its Details carry the status of a response entry
\* with the target's (domainName, validationScope); if there is none, that
\* of the first entry with its domainName; if there is none, 'Submitted'
C21_PerTargetStatus ==
  (status = "returned" /\ Len(trace) = 1) =>
    /\ Len(returned) = Len(input)
    /\ \A k \in 1..Len(input) :
         LET ds == trace[1].domains
             d == input[k]
             First(S) == CHOOSE x \in S : \A y \in S : x <= y
         IN /\ Identity(returned[k]) = TargetIdentity(d)
            /\ returned[k].Result = "Submitted"
            /\ IF SameKey(ds, d) # {}
               THEN \E j \in SameKey(ds, d) :
                      returned[k].Details = "Status: " \o CarriedStatus(ds[j])
               ELSE IF SameName(ds, d) # {}
               THEN returned[k].Details = "Status: " \o CarriedStatus(ds[First(SameName(ds, d))])
               ELSE returned[k].Details = "Status: Submitted"

\* the positions of a batch a set of (zero-based) indices cites, and the others
CitedPositions(batch, bad) == {k \in 1..Len(batch) : (k - 1) \in bad}
UncitedPositions(batch, bad) == {k \in 1..Len(batch) : (k - 1) \notin bad}

\* the request req lists the targets of batch, in order
IncludesAll(req, batch) ==
  /\ Len(req.domains) = Len(batch)
  /\ \A k \in 1..Len(batch) :
       /\ req.domains[k].domainName = batch[k].domainName
       /\ req.domains[k].validationScope = batch[k].validationScope

\* the invocation on top of the stack has just read the indices a 400 cites
CitedStep ==
  /\ Submitting
  /\ Top.pc = "wait"
  /\ last'.kind = "response"
  /\ last'.status_code = "400"
  /\ last'.bad_indices # {}

\* the cited targets are recorded Failed and the retry is invoked with the
\* targets that were not cited, and with no other
RetryIsTheUncited ==
  CitedStep =>
    LET n == Len(stack)
        batch == Top.batch
        cited == SelectIdx(batch, CitedPositions(batch, last'.bad_indices), 1)
        uncited == SelectIdx(batch, UncitedPositions(batch, last'.bad_indices), 1)
    IN /\ Len(stack'[n].own) = Len(cited)
       /\ \A k \in 1..Len(cited) :
            /\ Identity(stack'[n].own[k]) = TargetIdentity(cited[k])
            /\ stack'[n].own[k].Result = "Failed"
       /\ uncited # <<>> =>
            /\ Len(stack') = n + 1
            /\ stack'[n + 1].batch = uncited
            /\ stack'[n + 1].pc = "start"
       /\ uncited = <<>> => Len(stack') = n

\* the next thing an invoked retry does is to send the request that lists
\* its batch
RetrySendsNext ==
  (Submitting /\ Len(stack) > 1 /\ Top.pc = "start") =>
    /\ Len(reqs') = Len(reqs) + 1
    /\ IncludesAll(reqs'[Len(reqs')], Top.batch)

\* a request is sent by the innermost invocation only, once, for its batch
OnlyTheInnermostSends ==
  reqs' # reqs =>
    /\ Top.pc = "start"
    /\ Top.calls = <<>>
    /\ reqs' = Append(reqs, reqs'[Len(reqs')])
    /\ IncludesAll(reqs'[Len(reqs')], Top.batch)

\* no invocation follows a response that is not a 400
NoRetryAfterOther ==
  (Submitting /\ Top.pc = "wait" /\ last'.status_code # "400") =>
    /\ Len(stack') = Len(stack)
    /\ stack'[Len(stack)].pc \in {"ret", "raised"}
    /\ stack'[Len(stack)].calls = <<>>

\* C22 (no resubmission of a cited target): within one top-level call, a
\* target recorded Failed because a 400 cited its index is in no later
\* request, every target of that batch that was not cited is in the very
\* next request, and no target is resubmitted after a response other than
\* a 400
C22_NoResubmission ==
  [][RetryIsTheUncited /\ RetrySendsNext /\ OnlyTheInnermostSends /\ NoRetryAfterOther]_vars

\* C22 without the step of an invoked retry: what holds in every run
C22_ExceptSend ==
  [][RetryIsTheUncited /\ OnlyTheInnermostSends /\ NoRetryAfterOther]_vars

\* the Result that goes with a Status Code
ResultOf(f, code) ==
  IF code = "400" THEN "Failed"
  ELSE IF code = "Exception" THEN "Exception"
  ELSE IF f = "delete" /\ code \in {"200", "204"} THEN "Success"
  ELSE IF f = "delete" /\ code = "207" THEN "Multi-Status"
  ELSE IF f = "validate" /\ code \in {"200", "202"} THEN "Submitted"
  ELSE "Error"

\* what answered the request of the invocation fr: the status of the
\* response, or 'Exception' when the request raised
AnsweredWith(fr) ==
  IF fr.path = "transport-exception" THEN "Exception" ELSE fr.status_code

\* the records the invocation fr appended itself carry what answered its
\* request, and the Result that goes with it
OwnRecordsCarryAnswer(fr) ==
  \A j \in 1..Len(fr.own) :
    /\ fr.own[j].StatusCode = AnsweredWith(fr)
    /\ fr.own[j].Result = ResultOf(flow, fr.own[j].StatusCode)
    /\ Identity(fr.own[j]) \in Elements(BatchIdentities(fr.batch))

\* C23 (status code and result): every record carries what answered the
\* last request that listed its target (the status of the response, or
\* 'Exception' when the request raised): an invocation records the targets
\* it does not pass on to a retry that sends a request; and the Result of a
\* record is the function of its Status Code given for the flow
C23_StatusAndResult ==
  /\ [](( flow \in {"delete", "validate"} /\ status \in {"running", "returned"}) =>
         /\ \A k \in 1..Len(stack) :
              /\ OwnRecordsCarryAnswer(stack[k])
              /\ \A j \in 1..Len(stack[k].results) :
                   stack[k].results[j].Result = ResultOf(flow, stack[k].results[j].StatusCode)
              /\ (k < Len(stack) /\ HasSent(stack[k + 1])) =>
                   SameMultiset(RecordIdentities(stack[k].own)
                                  \o BatchIdentities(stack[k + 1].batch),
                                BatchIdentities(stack[k].batch))
         /\ status = "returned" =>
              /\ returned = stack[1].results
              /\ \A j \in 1..Len(returned) :
                   /\ returned[j].Result = ResultOf(flow, returned[j].StatusCode)
                   /\ returned[j].Result \in {"Success", "Submitted"} =>
                        returned[j].StatusCode \in {"200", "202", "204"})
  /\ [][/\ (Submitting /\ Top.pc = "wait") =>
             /\ last'.kind \in {"response", "raise"}
             /\ AnsweredWith(stack'[Len(stack)]) =
                  IF last'.kind = "raise" THEN "Exception" ELSE last'.status_code
        /\ \A k \in 1..Len(stack) :
             (k <= Len(stack') /\ HasSent(stack[k]) /\ stack[k].pc # "wait") =>
               AnsweredWith(stack'[k]) = AnsweredWith(stack[k])]_vars

\* C23 witness: a call returned a Failed record with 400 for the cited
\* first target and an Error record with 500 for the second, which the
\* retry listed
C23_Witness ==
  /\ status = "returned"
  /\ Len(reqs) = 2
  /\ Len(returned) = 2
  /\ returned[1].StatusCode = "400" /\ returned[1].Result = "Failed"
  /\ returned[2].StatusCode = "500" /\ returned[2].Result = "Error"
  /\ Identity(returned[2]) = TargetIdentity(input[2])

\* the k-th response of the call is a 400 that cites no index of the batch
\* its request listed
CitesNoneInRange(k) ==
  /\ trace[k].kind = "response"
  /\ trace[k].status_code = "400"
  /\ ~\E j \in 1..Len(trace[k].entries) :
        /\ CitesIndex(trace[k].entries[j].field)
        /\ ParseInt(IndexText(trace[k].entries[j].field)).val \in
             0..(Len(reqs[k].domains) - 1)

\* every 400 received so far cited an index of the current batch
EveryCiteInRange == \A k \in 1..Len(trace) : ~CitesNoneInRange(k)

\* C24 (bounded requests): when every 400 cites at least one index inside
\* the current batch, a top-level batch of N >= 1 targets causes at most N
\* requests, each on a batch strictly smaller than the one before, and at
\* most N nested invocations; a batch of no target causes exactly one
\* request and returns the empty list whatever the response
C24_BoundedRequests ==
  /\ (Len(input) >= 1 /\ EveryCiteInRange) =>
       /\ Len(trace) \in {Len(reqs), Len(reqs) - 1}
       /\ Len(reqs) <= Len(input)
       /\ Len(stack) <= Len(input)
       /\ \A k \in 2..Len(reqs) : Len(reqs[k].domains) < Len(reqs[k - 1].domains)
       /\ \A k \in 1..Len(stack) : stack[k].pc # "raised"
  /\ Len(input) = 0 =>
       /\ Len(reqs) <= 1
       /\ Len(stack) = 1
       /\ stack[1].results = <<>>
       /\ stack[1].pc \in {"ret"} => Len(reqs) = 1
       /\ status = "returned" => returned = <<>> /\ Len(reqs) = 1

\* C24 witness: three targets, each 400 citing one index of the current
\* batch: the third request lists one target and the call returned
C24_Witness ==
  /\ status = "returned"
  /\ Len(input) = 3
  /\ EveryCiteInRange
  /\ Len(reqs) = 3
  /\ Len(reqs[3].domains) = 1
  /\ trace[3].status_code = "400"
  /\ Len(returned) = 3

\* C24 witness of the empty batch: one request, answered with a 400 that
\* cites an index, and the empty list returned
C24_WitnessEmpty ==
  /\ status = "returned"
  /\ input = <<>>
  /\ Len(reqs) = 1
  /\ trace[1].status_code = "400"
  /\ Len(trace[1].entries) = 1
  /\ returned = <<>>

\* the first n entries of a list
FirstN(ts, n) == [k \in 1..(IF n <= Len(ts) THEN n ELSE Len(ts)) |-> ts[k]]

IsPrefixOf(s, t) == Len(s) <= Len(t) /\ \A k \in 1..Len(s) : s[k] = t[k]

C25_WitnessCut ==
  /\ spc = "done"
  /\ limit = 1
  /\ batch_size = 2
  /\ Len(loaded.targets) = 3
  /\ submitted = <<<<loaded.targets[1]>>>>

\* the request is the create POST, or the detail GET, of the domain d
IsPostOf(req, d) ==
  /\ req.method = "POST"
  /\ Len(req.domains) = 1
  /\ req.domains[1].domainName = d

IsGetOf(req, d) ==
  /\ req.method = "GET"
  /\ req.endpoint = "/domain-validation/v1/domains/" \o d

\* the domain of the k-th request: that of the k-th POST counted so far
PostsUpTo(k) == Cardinality({j \in 1..k : reqs[j].method = "POST"})

\* an item of the body reports 'Domain already exists' for the domain d
ReportsExists(resp, d) ==
  LET says(item) == item.domainName = d /\ item.detail = "Domain already exists"
  IN \/ \E k \in 1..Len(resp.successes) : says(resp.successes[k])
     \/ \E k \in 1..Len(resp.errors) : says(resp.errors[k])
     \/ \E k \in 1..Len(resp.items) : says(resp.items[k])
     \/ says(resp.self)

====
